---- MODULE Spec2Model ----
(***************************************************************************)
(* A model of the decision synthesis pipeline of portfolio-ai.             *)
(*                                                                         *)
(*   synthesis/decision_engine.py  _index_events, run_decision_engine      *)
(*   engines/risk.py               run_risk_engine                         *)
(*   engines/events.py             analyze_headline, run_events_engine     *)
(*   engines/thesis.py             run_thesis_engine                       *)
(*   engines/valuation.py          run_valuation_engine                    *)
(*   engines/opportunity_cost.py   run_opportunity_cost_engine             *)
(*                                                                         *)
(* Conventions.  A Python dict lookup d.get(symbol, {}) is a sequence:     *)
(* <<>> when the symbol has no record, <<record>> when it has one.  A      *)
(* dict that keeps insertion order (holding_actions) is a sequence of      *)
(* records carrying their key.  Numbers with one decimal are held in       *)
(* tenths (capital_drag_score 84.9 is 849, weight_pct 7.1 is 71); a        *)
(* volatility is held in percent, a beta in hundredths and a market cap    *)
(* in crore rupees.  The rows of the holdings table, the event list and    *)
(* the lookups of market_data are supplied one element at a time, as the   *)
(* loops read them.  market_data is the lookup object the engines are      *)
(* called with (info, price_history, news).  The value at risk, which no   *)
(* engine reads and only the display shows, is left out.                   *)
(***************************************************************************)
EXTENDS Integers, Sequences, FiniteSets, TLC

VARIABLES
    pc,                \* where the run stands
    df,                \* the rows of the holdings table read so far
    events_map,        \* _index_events: symbol -> the event kept for it
    critical_listed,   \* history: symbols the event list had a critical event for
    cur,               \* the row under evaluation with its per-symbol records
    holding_actions,   \* run_decision_engine: symbol -> verdict, in insertion order
    result,            \* the returned "portfolio_actions" object
    rerun,             \* a second run that differs in one capital_drag_score
    market_data,       \* the market lookups read so far, one record per symbol
    holdings_risk,     \* run_risk_engine: symbol -> risk record
    exposure,          \* run_risk_engine: the accumulators of the row loop
    risk_output,       \* run_risk_engine: the portfolio part of its return value
    row_no,            \* rows of a finished table the evaluation loop has read
    thesis_data,       \* the thesis record of the holding
    news,              \* market_data.news of the holding, as read so far
    item_no,           \* run_events_engine: items of raw_news gone through
    stock_events,      \* run_events_engine: the events of the holding
    seen_headlines,    \* run_events_engine: the headlines analysed
    event_data,        \* the events returned, then those not yet indexed
    run,               \* the first or the second run on the same inputs
    first,             \* what the first run returned
    financial_data,    \* fetch_financial_trends: what it returned for the holding
    deterioration_count,   \* run_thesis_engine: the count of the holding, in halves
    sector_benchmarks_cache,   \* run_valuation_engine: sector -> benchmarks
    valuation_output,  \* run_valuation_engine: the record of the holding
    opportunity_output \* run_opportunity_cost_engine: the record of the holding

\* the state of run_risk_engine and of the loop over a table it has read
riskVars == <<market_data, holdings_risk, exposure, risk_output, row_no>>

\* the state of run_events_engine, and of a pair of runs
eventVars == <<thesis_data, news, item_no, stock_events, seen_headlines,
               event_data, run, first>>

\* the state of the thesis, valuation and opportunity-cost engines
engineVars == <<financial_data, deterioration_count, sector_benchmarks_cache,
                valuation_output, opportunity_output>>

\* the engines that run before the decision engine
upstream == <<riskVars, eventVars, engineVars>>

vars == <<pc, df, events_map, critical_listed, cur, holding_actions, result,
          rerun, upstream>>

-----------------------------------------------------------------------------
(* Bounds of the model *)

\* rows of a holdings table whose rows range over the rule profiles
MaxRows == 3
\* rows of one profile that open a table long enough to be truncated
FillerRows == 9
\* holdings of a table that goes through the risk engine first
MaxHoldings == 2
\* items of the news list of a holding
MaxNews == 2

(* Program constants *)

MAX_PORTFOLIO_ACTIONS == 10

URGENCY_CRITICAL == "Critical"
URGENCY_HIGH == "High"
URGENCY_MEDIUM == "Medium"
URGENCY_LOW == "Low"

Actions == {"EXIT", "REPLACE", "TRIM", "WATCH", "HOLD"}
Urgencies == {URGENCY_CRITICAL, URGENCY_HIGH, URGENCY_MEDIUM, URGENCY_LOW}

-----------------------------------------------------------------------------
(* The inputs *)

\* the symbol of row i of a table; "" is a row whose symbol is empty
SymbolNames ==
    <<"ITC", "VBL", "HAL", "INFY", "TCS", "BEL", "LT", "DLF", "SRF", "ABB",
      "NTPC", "ONGC", "TITAN", "TRENT", "DMART", "VOLTAS">>

InstrumentTypes == {"Equity", "SGB", "Restricted Equity"}

CriticalImpacts == {"Governance Risk", "Regulatory Hit"}
Impacts == CriticalImpacts \cup {"Earnings Miss"}

\* the symbols the event list speaks of
EventSymbols == {SymbolNames[1], SymbolNames[2]}

NoEvent == [symbol |-> "", impact |-> "", headline |-> ""]

\* the records an engine may hold for a symbol
ThesisRecords == {<<>>} \cup
    {<<[status |-> s]>> : s \in {"Intact", "Weakening", "Broken", "Insufficient Data"}}

ValuationRecords ==
    {<<>>} \cup {<<[stress_score |-> s]>> : s \in {74, 75, 89, 90}}

DragScores == {849, 850, 1000}

OpportunityRecords == {<<>>} \cup
    {<<[capital_drag_score |-> d, momentum_health |-> m,
        replacement_candidates |-> c]>> :
        d \in DragScores, m \in {39, 40, 60, 61, 75, 76},
        c \in {<<>>, <<"TCS.NS">>, <<"TCS.NS", "INFY.NS">>}}

RiskRecords == {<<>>} \cup
    {<<[risk_tag |-> t]>> :
        t \in {"Critical (Liquidity)", "Critical (Volatility)", "High Volatility"}}

Input(sym, type, th, va, op, ri) ==
    [symbol |-> sym, instrument_type |-> type, thesis |-> th, val |-> va,
     opp |-> op, risk |-> ri]

NoRow == Input("", "", <<>>, <<>>, <<>>, <<>>)

-----------------------------------------------------------------------------
(* synthesis/decision_engine.py *)

\* _index_events, one iteration of the loop over event_list
IndexOne(map, e) ==
    IF map[e.symbol] # NoEvent /\ map[e.symbol].impact = "Governance Risk"
    THEN map
    ELSE [map EXCEPT ![e.symbol] = e]

\* the lookup answering with whatever event the map keeps, of any symbol
EventForAnySymbol(map, sym) ==
    IF \E s \in DOMAIN map : map[s] # NoEvent
    THEN map[CHOOSE s \in DOMAIN map : map[s] # NoEvent]
    ELSE NoEvent

\* events_map.get(symbol)
EventFor(map, sym) == IF sym \in DOMAIN map THEN map[sym] ELSE NoEvent

\* Extract Signals
ThesisStatus(in) == IF in.thesis = <<>> THEN "Unknown" ELSE in.thesis[1].status
\* a missing valuation record read as the highest stress
ValStressMissingIsStretched(in) ==
    IF in.val = <<>> THEN 90 ELSE in.val[1].stress_score

ValStress(in) == IF in.val = <<>> THEN 50 ELSE in.val[1].stress_score
DragScore(in) == IF in.opp = <<>> THEN 0 ELSE in.opp[1].capital_drag_score
MomScore(in) == IF in.opp = <<>> THEN 50 ELSE in.opp[1].momentum_health
RiskTag(in) == IF in.risk = <<>> THEN "Low" ELSE in.risk[1].risk_tag
Candidates(in) == IF in.opp = <<>> THEN <<>> ELSE in.opp[1].replacement_candidates

Verdict(a, r, u) == [action |-> a, reason |-> r, urgency |-> u]

\* the premium test placed before the overvaluation test
TradeLayerWatchFirst(in) ==
    IF ValStress(in) >= 75 /\ ThesisStatus(in) = "Intact"
    THEN Verdict("WATCH", <<"Monitor">>, URGENCY_LOW)
    ELSE IF ValStress(in) >= 90
    THEN IF MomScore(in) > 75
         THEN Verdict("TRIM", <<"Profit Booking">>, URGENCY_MEDIUM)
         ELSE Verdict("EXIT", <<"Valuation Bubble">>, URGENCY_HIGH)
    ELSE IF ThesisStatus(in) = "Weakening" /\ MomScore(in) < 40
    THEN Verdict("EXIT", <<"Falling Knife">>, URGENCY_HIGH)
    ELSE Verdict("HOLD", <<"Thesis intact, metrics within tolerance.">>,
                 URGENCY_LOW)

\* a momentum of exactly 40 taken for a downtrend
TradeLayerKnifeAtForty(in) ==
    IF ValStress(in) >= 90
    THEN IF MomScore(in) > 75
         THEN Verdict("TRIM", <<"Profit Booking">>, URGENCY_MEDIUM)
         ELSE Verdict("EXIT", <<"Valuation Bubble">>, URGENCY_HIGH)
    ELSE IF ThesisStatus(in) = "Weakening" /\ MomScore(in) <= 40
    THEN Verdict("EXIT", <<"Falling Knife">>, URGENCY_HIGH)
    ELSE IF ValStress(in) >= 75 /\ ThesisStatus(in) = "Intact"
    THEN Verdict("WATCH", <<"Monitor">>, URGENCY_LOW)
    ELSE Verdict("HOLD", <<"Thesis intact, metrics within tolerance.">>,
                 URGENCY_LOW)

\* the WATCH branch raising the urgency as the branches above it do
TradeLayerWatchMedium(in) ==
    IF ValStress(in) >= 90
    THEN IF MomScore(in) > 75
         THEN Verdict("TRIM", <<"Profit Booking">>, URGENCY_MEDIUM)
         ELSE Verdict("EXIT", <<"Valuation Bubble">>, URGENCY_HIGH)
    ELSE IF ThesisStatus(in) = "Weakening" /\ MomScore(in) < 40
    THEN Verdict("EXIT", <<"Falling Knife">>, URGENCY_HIGH)
    ELSE IF ValStress(in) >= 75 /\ ThesisStatus(in) = "Intact"
    THEN Verdict("WATCH", <<"Monitor">>, URGENCY_MEDIUM)
    ELSE Verdict("HOLD", <<"Thesis intact, metrics within tolerance.">>,
                 URGENCY_LOW)

\* PRIORITY 5: VALUATION & MOMENTUM, then the default state (A)
TradeLayer(in) ==
    IF ValStress(in) >= 90
    THEN IF MomScore(in) > 75
         THEN Verdict("TRIM", <<"Profit Booking">>, URGENCY_MEDIUM)
         ELSE Verdict("EXIT", <<"Valuation Bubble">>, URGENCY_HIGH)
    ELSE IF ThesisStatus(in) = "Weakening" /\ MomScore(in) < 40
    THEN Verdict("EXIT", <<"Falling Knife">>, URGENCY_HIGH)
    ELSE IF ValStress(in) >= 75 /\ ThesisStatus(in) = "Intact"
    THEN Verdict("WATCH", <<"Monitor">>, URGENCY_LOW)
    ELSE Verdict("HOLD", <<"Thesis intact, metrics within tolerance.">>,
                 URGENCY_LOW)

\* a capital drag that would be dead money without a replacement: EXIT
CapitalLayerTrims(in) ==
    IF DragScore(in) >= 850
    THEN IF Candidates(in) # <<>>
         THEN Verdict("REPLACE", <<"Dead Capital: Switch to", Candidates(in)[1]>>,
                      URGENCY_HIGH)
         ELSE Verdict("TRIM", <<"Dead Capital">>, URGENCY_MEDIUM)
    ELSE TradeLayer(in)

\* the switch named after the last candidate of the list
CapitalLayerNamesLast(in) ==
    IF DragScore(in) >= 850
    THEN IF Candidates(in) # <<>>
         THEN Verdict("REPLACE",
                      <<"Dead Capital: Switch to",
                        Candidates(in)[Len(Candidates(in))]>>,
                      URGENCY_HIGH)
         ELSE Verdict("EXIT", <<"Dead Capital">>, URGENCY_MEDIUM)
    ELSE TradeLayer(in)

\* PRIORITY 4: CAPITAL EFFICIENCY (Dead Money)
CapitalLayer(in) ==
    IF DragScore(in) >= 850
    THEN IF Candidates(in) # <<>>
         THEN Verdict("REPLACE", <<"Dead Capital: Switch to", Candidates(in)[1]>>,
                      URGENCY_HIGH)
         ELSE Verdict("EXIT", <<"Dead Capital">>, URGENCY_MEDIUM)
    ELSE TradeLayer(in)

\* a momentum of exactly 60 taken for strong
RiskLayerTrimsAtSixty(in) ==
    IF RiskTag(in) = "Critical (Liquidity)"
    THEN Verdict("TRIM", <<"Liquidity Trap">>, URGENCY_HIGH)
    ELSE IF RiskTag(in) = "Critical (Volatility)"
    THEN IF MomScore(in) >= 60
         THEN Verdict("TRIM", <<"Risk Control">>, URGENCY_MEDIUM)
         ELSE Verdict("EXIT", <<"Volatility Risk">>, URGENCY_HIGH)
    ELSE CapitalLayer(in)

\* PRIORITY 3: RISK BREACHES
RiskLayer(in) ==
    IF RiskTag(in) = "Critical (Liquidity)"
    THEN Verdict("TRIM", <<"Liquidity Trap">>, URGENCY_HIGH)
    ELSE IF RiskTag(in) = "Critical (Volatility)"
    THEN IF MomScore(in) > 60
         THEN Verdict("TRIM", <<"Risk Control">>, URGENCY_MEDIUM)
         ELSE Verdict("EXIT", <<"Volatility Risk">>, URGENCY_HIGH)
    ELSE CapitalLayer(in)

\* the hierarchy with the risk breach tested before the thesis failure
DecideRiskFirst(in, event) ==
    IF event # NoEvent /\ event.impact \in {"Governance Risk", "Regulatory Hit"}
    THEN Verdict("EXIT", <<"CRITICAL EVENT", event.headline, event.impact>>,
                 URGENCY_CRITICAL)
    ELSE IF RiskTag(in) \in {"Critical (Liquidity)", "Critical (Volatility)"}
    THEN RiskLayer(in)
    ELSE IF ThesisStatus(in) = "Broken"
    THEN Verdict("EXIT", <<"Thesis Broken">>, URGENCY_CRITICAL)
    ELSE RiskLayer(in)

\* D. THE DECISION HIERARCHY: PRIORITY 1 (events), PRIORITY 2 (thesis), the rest
Decide(in, event) ==
    IF event # NoEvent /\ event.impact \in {"Governance Risk", "Regulatory Hit"}
    THEN Verdict("EXIT", <<"CRITICAL EVENT", event.headline, event.impact>>,
                 URGENCY_CRITICAL)
    ELSE IF ThesisStatus(in) = "Broken"
    THEN Verdict("EXIT", <<"Thesis Broken">>, URGENCY_CRITICAL)
    ELSE RiskLayer(in)

\* only gold bonds are taken for non-equity
RowVerdictGoldOnly(in, map) ==
    IF in.instrument_type = "SGB"
    THEN [action |-> "HOLD", reason |-> <<"Asset Class: Non-Equity">>,
          urgency |-> "Low", meta |-> <<>>]
    ELSE LET v == Decide(in, EventFor(map, in.symbol))
         IN  [action |-> v.action, reason |-> v.reason, urgency |-> v.urgency,
              meta |-> <<[momentum |-> MomScore(in),
                          thesis |-> ThesisStatus(in)]>>]

\* the dict stored for one row: B. Skip Non-Equity, else the hierarchy and
\* E. Store Decision
RowVerdict(in, map) ==
    IF in.instrument_type # "Equity"
    THEN [action |-> "HOLD", reason |-> <<"Asset Class: Non-Equity">>,
          urgency |-> "Low", meta |-> <<>>]
    ELSE LET v == Decide(in, EventFor(map, in.symbol))
         IN  [action |-> v.action, reason |-> v.reason, urgency |-> v.urgency,
              meta |-> <<[momentum |-> MomScore(in),
                          thesis |-> ThesisStatus(in)]>>]

\* holding_actions[symbol] = data, on a dict that keeps insertion order
DictSet(d, sym, data) ==
    LET entry == [symbol |-> sym, action |-> data.action,
                  reason |-> data.reason, urgency |-> data.urgency,
                  meta |-> data.meta]
    IN  IF \E k \in 1..Len(d) : d[k].symbol = sym
        THEN [k \in 1..Len(d) |-> IF d[k].symbol = sym THEN entry ELSE d[k]]
        ELSE Append(d, entry)

\* a base score that lets an urgent TRIM outrank a dead-capital EXIT
action_score_mapTrimSeventy(a) ==
    CASE a = "EXIT" -> 100
      [] a = "REPLACE" -> 80
      [] a = "TRIM" -> 70
      [] a = "WATCH" -> 10
      [] OTHER -> 0

action_score_map(a) ==
    CASE a = "EXIT" -> 100
      [] a = "REPLACE" -> 80
      [] a = "TRIM" -> 60
      [] a = "WATCH" -> 10
      [] OTHER -> 0

\* urgency_multiplier, in tenths
urgency_multiplier(u) ==
    CASE u = URGENCY_CRITICAL -> 20
      [] u = URGENCY_HIGH -> 15
      [] u = URGENCY_MEDIUM -> 10
      [] u = URGENCY_LOW -> 5
      [] OTHER -> 10

\* final_score = base_score * mult
FinalScore(data) ==
    (action_score_map(data.action) * urgency_multiplier(data.urgency)) \div 10

\* the loop that fills scored_actions
Surfaced(data) == data.action \notin {"HOLD", "WATCH"}

ScoredActions(d) == SelectSeq(d, Surfaced)

\* list.sort(key = score, reverse = True): stable, equal scores keep their order
RECURSIVE InsertDesc(_, _)
InsertDesc(sorted, x) ==
    IF sorted = <<>> THEN <<x>>
    ELSE IF FinalScore(Head(sorted)) >= FinalScore(x)
         THEN <<Head(sorted)>> \o InsertDesc(Tail(sorted), x)
         ELSE <<x>> \o sorted

\* the sort without reverse = True
RECURSIVE SortAsc(_)
SortAsc(s) ==
    IF s = <<>> THEN <<>>
    ELSE LET rest == SortAsc(SubSeq(s, 1, Len(s) - 1))
             x == s[Len(s)]
             below == SelectSeq(rest, LAMBDA y : FinalScore(y) <= FinalScore(x))
             above == SelectSeq(rest, LAMBDA y : FinalScore(y) > FinalScore(x))
         IN  below \o <<x>> \o above

RECURSIVE SortDesc(_)
SortDesc(s) ==
    IF s = <<>> THEN <<>>
    ELSE InsertDesc(SortDesc(SubSeq(s, 1, Len(s) - 1)), s[Len(s)])

\* scored_actions[:MAX_PORTFOLIO_ACTIONS + 1]
TruncateOneMore(s) ==
    IF Len(s) <= MAX_PORTFOLIO_ACTIONS + 1 THEN s
    ELSE SubSeq(s, 1, MAX_PORTFOLIO_ACTIONS + 1)

\* scored_actions[:MAX_PORTFOLIO_ACTIONS]
Truncate(s) ==
    IF Len(s) <= MAX_PORTFOLIO_ACTIONS THEN s
    ELSE SubSeq(s, 1, MAX_PORTFOLIO_ACTIONS)

PortfolioActions(d) == Truncate(SortDesc(ScoredActions(d)))

NetActionBias(actions) ==
    IF \E k \in 1..Len(actions) : actions[k].action = "EXIT"
    THEN "De-Risk" ELSE "Optimize"

NoResult == [do_nothing |-> FALSE, net_action_bias |-> "", actions |-> <<>>]

\* portfolio_actions.append({symbol, action, reason, urgency})
Listed(e) ==
    [symbol |-> e.symbol, action |-> e.action, reason |-> e.reason,
     urgency |-> e.urgency]

ReturnValue(d) ==
    LET top == PortfolioActions(d)
        portfolio_actions == [k \in 1..Len(top) |-> Listed(top[k])]
    IN  [do_nothing |-> Len(portfolio_actions) = 0,
         net_action_bias |-> NetActionBias(portfolio_actions),
         actions |-> portfolio_actions]

-----------------------------------------------------------------------------
(* engines/risk.py *)

\* the symbols of the table that are not plain equity
GoldBondSymbol == "SGBJUN31I-GB"
RestrictedSymbol == "ESSARSHPNG-BE"

\* classify_instrument
classify_instrument(symbol) ==
    IF symbol = GoldBondSymbol THEN "SGB"
    ELSE IF symbol = RestrictedSymbol THEN "Restricted Equity"
    ELSE "Equity"

\* "GB" in symbol
ContainsGB(symbol) == symbol = GoldBondSymbol

\* SECTOR_MAP.get(symbol, "Other")
SectorOf(symbol) ==
    CASE symbol \in {"ITC", "VBL"} -> "FMCG"
      [] symbol = "HAL" -> "Defence"
      [] symbol = "TRENT" -> "Retail"
      [] symbol = "HDFCBANK" -> "Financials"
      [] symbol = GoldBondSymbol -> "Commodities"
      [] symbol = RestrictedSymbol -> "Services"
      [] OTHER -> "Other"

\* calculate_dynamic_metrics: a usable history is held as the beta (in
\* hundredths) and the annualized volatility (in percent) it realizes, both
\* rounded to two decimals; <<>> is a history that is absent, empty or short
FallbackMetrics == [beta |-> 100, vol |-> 20]

calculate_dynamic_metrics(stock_hist) ==
    IF stock_hist = <<>> THEN FallbackMetrics ELSE stock_hist[1]

\* info.get("marketCap") or 0, in crore rupees (10**7)
MarketCap(info) == IF info = <<>> THEN 0 ELSE info[1].marketCap

\* 4. Market Cap Logic
SizeCategory(mcap) ==
    IF mcap > 20000 THEN "Large Cap"
    ELSE IF mcap > 5000 THEN "Mid Cap"
    ELSE IF mcap > 0 THEN "Small Cap"
    ELSE "Unknown"

\* the volatility test placed before the size test
HoldingRiskTagVolatilityFirst(size_cat, weight_pct, vol, beta) ==
    IF vol > 40 THEN "High Volatility"
    ELSE IF size_cat = "Small Cap" /\ weight_pct > 70 THEN "Critical (Liquidity)"
    ELSE IF beta > 150 /\ weight_pct > 50 THEN "Aggressive Exposure"
    ELSE IF size_cat = "Small Cap" THEN "Moderate (Small Cap)"
    ELSE "Low"

\* the volatility branch giving the tag the decision engine tests for
HoldingRiskTagCriticalVolatility(size_cat, weight_pct, vol, beta) ==
    IF size_cat = "Small Cap" /\ weight_pct > 70 THEN "Critical (Liquidity)"
    ELSE IF vol > 40 THEN "Critical (Volatility)"
    ELSE IF beta > 150 /\ weight_pct > 50 THEN "Aggressive Exposure"
    ELSE IF size_cat = "Small Cap" THEN "Moderate (Small Cap)"
    ELSE "Low"

\* C. Generate Holding Risk Tag
HoldingRiskTag(size_cat, weight_pct, vol, beta) ==
    IF size_cat = "Small Cap" /\ weight_pct > 70 THEN "Critical (Liquidity)"
    ELSE IF vol > 40 THEN "High Volatility"
    ELSE IF beta > 150 /\ weight_pct > 50 THEN "Aggressive Exposure"
    ELSE IF size_cat = "Small Cap" THEN "Moderate (Small Cap)"
    ELSE "Low"

\* round(n / 10^k, ...) to the nearest unit, a tie going to the even one
RoundHalfEven(n, unit) ==
    LET q == n \div unit
        r == n % unit
    IN  IF 2 * r > unit \/ (2 * r = unit /\ q % 2 = 1) THEN q + 1 ELSE q

\* the record stored for one row; beta and weight give the risk contribution
\* score in hundredths
HoldingRisk(symbol, type, weight_pct, info, stock_hist) ==
    LET m == IF type = "Equity" THEN calculate_dynamic_metrics(stock_hist)
             ELSE IF ContainsGB(symbol) THEN [beta |-> 5, vol |-> 10]
             ELSE [beta |-> 0, vol |-> 0]
        size_cat == IF type = "Equity" THEN SizeCategory(MarketCap(info))
                    ELSE "Cash/Equiv"
    IN  [symbol |-> symbol, beta |-> m.beta, volatility_annual |-> m.vol,
         size_category |-> size_cat,
         risk_tag |-> HoldingRiskTag(size_cat, weight_pct, m.vol, m.beta),
         risk_contribution_score |-> RoundHalfEven(m.beta * weight_pct, 10)]

\* d[key] += w on a defaultdict(float), which keeps insertion order
AddTo(d, key, w) ==
    IF \E k \in 1..Len(d) : d[k].key = key
    THEN [k \in 1..Len(d) |->
            IF d[k].key = key THEN [key |-> key, w |-> d[k].w + w] ELSE d[k]]
    ELSE Append(d, [key |-> key, w |-> w])

\* d[key] read on a defaultdict(float)
ValueOf(d, key) ==
    IF \E k \in 1..Len(d) : d[k].key = key
    THEN d[CHOOSE k \in 1..Len(d) : d[k].key = key].w
    ELSE 0

\* holdings_risk[symbol] = {...}
RiskSet(d, rec) ==
    IF \E k \in 1..Len(d) : d[k].symbol = rec.symbol
    THEN [k \in 1..Len(d) |-> IF d[k].symbol = rec.symbol THEN rec ELSE d[k]]
    ELSE Append(d, rec)

\* risk_data.get("holding_risk", {}).get(symbol, {})
RiskRecordOf(d, symbol) ==
    IF \E k \in 1..Len(d) : d[k].symbol = symbol
    THEN <<d[CHOOSE k \in 1..Len(d) : d[k].symbol = symbol]>>
    ELSE <<>>

\* total_weighted_beta in units of 1/100000, the exposures in tenths of percent
NoExposure ==
    [total_weighted_beta |-> 0, sector_exposure |-> <<>>, size_exposure |-> <<>>]

Accumulate(acc, rec, weight_pct) ==
    [total_weighted_beta |-> acc.total_weighted_beta + weight_pct * rec.beta,
     sector_exposure |-> AddTo(acc.sector_exposure, SectorOf(rec.symbol), weight_pct),
     size_exposure |-> AddTo(acc.size_exposure, rec.size_category, weight_pct)]

\* sorted(df["weight_pct"].tolist(), reverse = True)
RECURSIVE InsertWeight(_, _)
InsertWeight(sorted, w) ==
    IF sorted = <<>> THEN <<w>>
    ELSE IF Head(sorted) >= w THEN <<Head(sorted)>> \o InsertWeight(Tail(sorted), w)
    ELSE <<w>> \o sorted

RECURSIVE SortedWeights(_)
SortedWeights(rows) ==
    IF rows = <<>> THEN <<>>
    ELSE InsertWeight(SortedWeights(Tail(rows)), Head(rows).weight_pct)

RECURSIVE SumSeq(_)
SumSeq(s) == IF s = <<>> THEN 0 ELSE Head(s) + SumSeq(Tail(s))

\* Check 3: Sector Overload, in the order the sectors were first met
SectorFlags(sector_exposure) ==
    LET over == SelectSeq(sector_exposure,
                          LAMBDA e : e.w > 350 /\ e.key # "ETF")
    IN  [k \in 1..Len(over) |-> [flag |-> "Sector Bias", of |-> over[k].key]]

\* Determine Label
RiskProfile(total_weighted_beta) ==
    IF total_weighted_beta < 80000 THEN "Conservative"
    ELSE IF total_weighted_beta < 115000 THEN "Moderate"
    ELSE IF total_weighted_beta < 140000 THEN "Aggressive"
    ELSE "High Risk"

NoRiskOutput ==
    [portfolio_beta |-> 0, risk_profile |-> "", top1_pct |-> 0, top3_pct |-> 0,
     flags |-> <<>>]

\* 3. CONCENTRATION CHECKS and 4. FINAL ASSEMBLY; portfolio_beta in hundredths
RiskOutput(rows, acc) ==
    LET sorted_weights == SortedWeights(rows)
        top1 == IF sorted_weights # <<>> THEN sorted_weights[1] ELSE 0
        top3 == SumSeq(SubSeq(sorted_weights, 1,
                              IF Len(sorted_weights) < 3 THEN Len(sorted_weights)
                              ELSE 3))
        small == ValueOf(acc.size_exposure, "Small Cap")
    IN  [portfolio_beta |-> RoundHalfEven(acc.total_weighted_beta, 1000),
         risk_profile |-> RiskProfile(acc.total_weighted_beta),
         top1_pct |-> top1,
         top3_pct |-> top3,
         flags |-> (IF top1 > 150
                    THEN <<[flag |-> "Concentration Alert", of |-> "top1"]>>
                    ELSE <<>>)
                   \o (IF small > 350
                       THEN <<[flag |-> "Liquidity Risk", of |-> "Small Cap"]>>
                       ELSE <<>>)
                   \o SectorFlags(acc.sector_exposure)]

-----------------------------------------------------------------------------
(* engines/events.py *)

MAX_DISPLAY_PER_STOCK == 3

\* PATTERNS: the weight and the category of each regular expression, in order
PATTERNS ==
    <<[weight |-> -15, category |-> "Governance Risk"],
      [weight |-> -10, category |-> "Management Change"],
      [weight |-> -12, category |-> "Regulatory Hit"],
      [weight |-> 10, category |-> "Turnaround"],
      [weight |-> 10, category |-> "Earnings Blowout"],
      [weight |-> 8, category |-> "Earnings Beat"],
      [weight |-> -10, category |-> "Deterioration"],
      [weight |-> -10, category |-> "Earnings Miss"],
      [weight |-> -8, category |-> "Earnings Miss"],
      [weight |-> -7, category |-> "Operational Stress"],
      [weight |-> 6, category |-> "Order Book"],
      [weight |-> 5, category |-> "Expansion"],
      [weight |-> -5, category |-> "Insider Selling"],
      [weight |-> 5, category |-> "Capital Return"],
      [weight |-> -5, category |-> "Analyst Downgrade"],
      [weight |-> 5, category |-> "Analyst Upgrade"]>>

\* A headline is held as what the scans find in its text: whether a noise
\* pattern occurs, the PATTERNS that match, the fallback keywords it holds
\* ("neg": plunge, crash, ...; "pos": surge, rally, ...), and the story it
\* words, two headlines of one story being more than 60% similar.
Headline(story, noise, matches, keyword) ==
    [story |-> story, noise |-> noise, matches |-> matches, keyword |-> keyword]

\* is_duplicate
is_duplicate(headline, existing_headlines) ==
    \E k \in 1..Len(existing_headlines) :
        existing_headlines[k].story = headline.story

RECURSIVE SumWeights(_)
SumWeights(matches) ==
    IF matches = {} THEN 0
    ELSE LET k == CHOOSE k \in matches : TRUE
         IN  PATTERNS[k].weight + SumWeights(matches \ {k})

\* 2. Regex Pattern Scanning
PatternScore(headline) == SumWeights(headline.matches)
PatternCategories(headline) == {PATTERNS[k].category : k \in headline.matches}

\* 3. Fallback Keyword Scan, taken when the pattern score is 0
FallbackTaken(headline) ==
    PatternScore(headline) = 0 /\ headline.keyword \in {"neg", "pos", "both"}

HeadlineScore(headline) ==
    IF PatternScore(headline) # 0 THEN PatternScore(headline)
    ELSE IF headline.keyword \in {"neg", "both"} THEN -3
    ELSE IF headline.keyword = "pos" THEN 3
    ELSE 0

HeadlineCategories(headline) ==
    IF FallbackTaken(headline)
    THEN PatternCategories(headline) \cup {"Price Action"}
    ELSE PatternCategories(headline)

\* Determine Primary Category.  list(categories)[0] is the first element of
\* a set of strings in its iteration order, which follows the string hashes
\* of the process: any element of the set can come first.
PrimaryCategories(categories) ==
    IF "Governance Risk" \in categories THEN {"Governance Risk"}
    ELSE IF "Deterioration" \in categories THEN {"Fundamental Decay"}
    ELSE IF "Earnings Blowout" \in categories THEN {"Earnings Blowout"}
    ELSE IF categories # {} THEN categories
    ELSE {"General"}

\* 5. Contextual Intelligence
ConfidenceEffect(score, thesis_status) ==
    IF score < 0
    THEN IF thesis_status \in {"Weakening", "Broken"}
         THEN "CONFIRMATION" ELSE "WARNING"
    ELSE IF score > 0
    THEN IF thesis_status = "Broken" THEN "CONTRARIAN" ELSE "MOMENTUM"
    ELSE ""

\* analyze_headline: the results it can return, <<>> being None
analyze_headline(headline, thesis_status) ==
    IF headline.noise THEN {<<>>}
    ELSE IF HeadlineScore(headline) = 0 THEN {<<>>}
    ELSE {<<[headline |-> headline, category |-> c,
             impact_score |-> HeadlineScore(headline),
             confidence_effect |->
                 ConfidenceEffect(HeadlineScore(headline), thesis_status)]>> :
            c \in PrimaryCategories(HeadlineCategories(headline))}

Abs(n) == IF n < 0 THEN -n ELSE n

\* stock_events.sort(key = abs(score), reverse = True), a stable sort
RECURSIVE InsertBySeverity(_, _)
InsertBySeverity(sorted, e) ==
    IF sorted = <<>> THEN <<e>>
    ELSE IF Abs(Head(sorted).score) >= Abs(e.score)
         THEN <<Head(sorted)>> \o InsertBySeverity(Tail(sorted), e)
         ELSE <<e>> \o sorted

RECURSIVE SortBySeverity(_)
SortBySeverity(s) ==
    IF s = <<>> THEN <<>>
    ELSE InsertBySeverity(SortBySeverity(SubSeq(s, 1, Len(s) - 1)), s[Len(s)])

\* stock_events[:MAX_DISPLAY_PER_STOCK]
TopEvents(s) ==
    IF Len(s) <= MAX_DISPLAY_PER_STOCK THEN s
    ELSE SubSeq(s, 1, MAX_DISPLAY_PER_STOCK)

-----------------------------------------------------------------------------
(* engines/thesis.py *)

\* SECTOR_MAP.get(symbol, "Unknown")
SectorOrUnknown(symbol) ==
    IF SectorOf(symbol) = "Other" THEN "Unknown" ELSE SectorOf(symbol)

\* A series of a statement is held as its values after dropna(), the latest
\* period first; <<>> is a row that is absent or all NaN (safe_get_row gives
\* None).  The values a series lacks are those of its oldest periods, so two
\* series share the dates of the shorter one.

\* fetch_financial_trends on the statements the ticker gave: <<>> is None
fetch_financial_trends(statements) ==
    IF statements.financials = <<>> \/ statements.balance_sheet = <<>>
    THEN <<>>
    ELSE <<[revenue |-> statements.financials[1].revenue,
            net_income |-> statements.financials[1].net_income,
            operating_income |-> statements.financials[1].operating_income,
            interest_expense |-> statements.financials[1].interest_expense,
            total_debt |-> statements.balance_sheet[1].total_debt,
            total_equity |-> statements.balance_sheet[1].total_equity]>>

evaluate_trend(series) ==
    IF Len(series) < 2 THEN "Unknown"
    ELSE IF series[1] > series[2] THEN "Improving"
    ELSE IF series[1] < series[2] THEN "Deteriorating"
    ELSE "Stable"

\* calculate_ratio_trend, the trend it returns: the latest ratio against the
\* previous one, compared by cross multiplication; a ratio whose denominator
\* is 0 is NaN, which compares neither above nor below
calculate_ratio_trend(numerator_series, denominator_series) ==
    IF Len(numerator_series) < 2 \/ Len(denominator_series) < 2 THEN "Unknown"
    ELSE IF denominator_series[1] = 0 \/ denominator_series[2] = 0 THEN "Stable"
    ELSE LET diff == (numerator_series[1] * denominator_series[2]
                        - numerator_series[2] * denominator_series[1])
                     * (denominator_series[1] * denominator_series[2])
         IN  IF diff > 0 THEN "Improving"
             ELSE IF diff < 0 THEN "Deteriorating"
             ELSE "Stable"

\* one test of the engine: the driver it records and what it adds to
\* deterioration_count, in halves
Flag(driver, halves) == [driver |-> driver, halves |-> halves]

\* the interest coverage test firing below 1.0 only
InterestCoverageBelowOne(data) ==
    IF data.operating_income # <<>> /\ data.interest_expense # <<>>
    THEN LET op_inc == data.operating_income[1]
             int_exp == Abs(data.interest_expense[1])
         IN  IF int_exp > 0
             THEN IF op_inc < int_exp
                  THEN <<Flag("Critical Solvency Risk (Int. Cov < 1.5x)", 4)>>
                  ELSE IF op_inc < 3 * int_exp
                  THEN <<Flag("Weak Solvency (Int. Cov < 3x)", 1)>>
                  ELSE <<>>
             ELSE <<>>
    ELSE <<>>

\* Test: Interest Coverage Ratio (EBIT / Interest)
InterestCoverage(data) ==
    IF data.operating_income # <<>> /\ data.interest_expense # <<>>
    THEN LET op_inc == data.operating_income[1]
             int_exp == Abs(data.interest_expense[1])
         IN  IF int_exp > 0
             THEN IF 2 * op_inc < 3 * int_exp
                  THEN <<Flag("Critical Solvency Risk (Int. Cov < 1.5x)", 4)>>
                  ELSE IF op_inc < 3 * int_exp
                  THEN <<Flag("Weak Solvency (Int. Cov < 3x)", 1)>>
                  ELSE <<>>
             ELSE <<>>
    ELSE <<>>

\* Test: High Leverage (Debt > Equity)
HighLeverage(data) ==
    LET latest_debt == IF data.total_debt # <<>> THEN data.total_debt[1] ELSE 0
        latest_equity == IF data.total_equity # <<>> THEN data.total_equity[1]
                         ELSE 0
    IN  IF latest_debt > 0 /\ latest_equity > 0 /\ latest_debt > latest_equity
        THEN <<Flag("High Leverage (D/E > 1)", 2)>>
        ELSE <<>>

\* TEST 5: FINANCIAL SOLVENCY & STABILITY
Solvency(sector, data) ==
    IF sector = "Financials"
    THEN IF evaluate_trend(data.total_equity) = "Deteriorating"
         THEN <<Flag("Book Value/Capital eroding", 4)>>
         ELSE <<>>
    ELSE HighLeverage(data) \o InterestCoverage(data)

\* TEST 1 to TEST 5, in the order they are made
ThesisFlags(sector, data) ==
    (IF evaluate_trend(data.revenue) = "Deteriorating"
     THEN <<Flag("Revenue growth weakening", 2)>> ELSE <<>>)
    \o (IF evaluate_trend(data.net_income) = "Deteriorating"
        THEN <<Flag("Net Profit decline", 2)>> ELSE <<>>)
    \o (IF /\ sector # "Financials"
           /\ calculate_ratio_trend(data.operating_income, data.revenue)
                = "Deteriorating"
        THEN <<Flag("Operating Margins contracting", 2)>> ELSE <<>>)
    \o (IF calculate_ratio_trend(data.net_income, data.total_equity)
             = "Deteriorating"
        THEN <<Flag("ROE (Return on Equity) declining", 2)>> ELSE <<>>)
    \o Solvency(sector, data)

\* deterioration_count, in halves
DeteriorationCount(flags) == SumSeq([k \in 1..Len(flags) |-> flags[k].halves])

\* FINAL SCORING LOGIC
FinalStatus(count) ==
    IF count >= 6 THEN "Broken"
    ELSE IF count >= 2 THEN "Weakening"
    ELSE "Intact"

\* thesis_output[symbol] for one row of the table
ThesisOutput(symbol, type, statements) ==
    IF type # "Equity" THEN [status |-> "Not Applicable", drivers |-> <<>>]
    ELSE IF fetch_financial_trends(statements) = <<>>
    THEN [status |-> "Insufficient Data", drivers |-> <<>>]
    ELSE LET sector == SectorOrUnknown(symbol)
             flags == ThesisFlags(sector, fetch_financial_trends(statements)[1])
         IN  [status |-> FinalStatus(DeteriorationCount(flags)),
              drivers |-> [k \in 1..Len(flags) |-> flags[k].driver],
              sector |-> sector]

\* the count the row loop reached for the row, 0 when it never counted
CountOf(symbol, type, statements) ==
    IF type # "Equity" \/ fetch_financial_trends(statements) = <<>> THEN 0
    ELSE DeteriorationCount(
             ThesisFlags(SectorOrUnknown(symbol),
                         fetch_financial_trends(statements)[1]))

-----------------------------------------------------------------------------
(* engines/valuation.py *)

\* A number that may be missing (None, or a key the dict lacks) is <<>> or
\* <<v>>.  A P/E is held in tenths, a P/B in hundredths, a PEG in tenths; a
\* benchmark is the fraction num / den of the same unit, so that the median of
\* two captains is exact.

\* SECTOR_CAPTAINS.get(sector, []), for the sectors of SectorOf
SECTOR_CAPTAINS(sector) ==
    CASE sector = "Financials" -> <<"HDFCBANK.NS", "ICICIBANK.NS", "BAJFINANCE.NS">>
      [] sector = "FMCG" -> <<"HINDUNILVR.NS", "ITC.NS", "NESTLEIND.NS">>
      [] sector = "Defence" -> <<"HAL.NS", "BEL.NS", "MAZDOCK.NS">>
      [] sector = "Services" -> <<"ADANIPORTS.NS", "INDIGO.NS">>
      [] sector = "Retail" -> <<"TRENT.NS", "TITAN.NS", "DMART.NS">>
      [] sector = "Universal" -> <<"NIFTYBEES.NS">>
      [] OTHER -> <<>>

\* the number of captains a sector lists
CaptainCount(sector) == Len(SECTOR_CAPTAINS(sector))

\* FALLBACK_SECTOR_PE.get(sector, 20.0), in tenths
FALLBACK_SECTOR_PE(sector) ==
    CASE sector = "Financials" -> 180
      [] sector = "FMCG" -> 550
      [] sector = "Defence" -> 400
      [] sector = "Retail" -> 600
      [] OTHER -> 200

\* the values `if pe and pe > 0` keeps, over the captains that have info
RECURSIVE PositiveValues(_, _)
PositiveValues(infos, field) ==
    IF infos = <<>> THEN <<>>
    ELSE (IF Head(infos) # <<>> /\ Head(infos)[1][field] # <<>>
             /\ Head(infos)[1][field][1] > 0
          THEN <<Head(infos)[1][field][1]>> ELSE <<>>)
         \o PositiveValues(Tail(infos), field)

\* sorted(values)
RECURSIVE SortedValues(_)
SortedValues(values) ==
    IF values = <<>> THEN <<>>
    ELSE InsertWeight(SortedValues(Tail(values)), Head(values))

\* np.median of a list that is not empty
Median(values) ==
    LET sorted == SortedValues(values)
        n == Len(sorted)
    IN  IF n % 2 = 1 THEN [num |-> sorted[(n + 1) \div 2], den |-> 1]
        ELSE [num |-> sorted[n \div 2] + sorted[n \div 2 + 1], den |-> 2]

\* PHASE 1: the benchmarks of one sector, from the info of its captains
SectorBenchmarks(sector, infos) ==
    LET pe_values == PositiveValues(infos, "trailingPE")
        pb_values == PositiveValues(infos, "priceToBook")
    IN  [sector |-> sector,
         pe |-> IF pe_values # <<>> THEN Median(pe_values)
                ELSE [num |-> FALLBACK_SECTOR_PE(sector), den |-> 1],
         source_pe |-> IF pe_values # <<>> THEN "Live Sector Captains"
                       ELSE "Static Market Baseline",
         pb |-> IF pb_values # <<>> THEN Median(pb_values)
                ELSE [num |-> 300, den |-> 1],
         source_pb |-> IF pb_values # <<>> THEN "Live Sector Captains"
                       ELSE "Static Market Baseline"]

\* sector_benchmarks_cache.get(sector, {})
CachedBenchmarks(cache, sector) ==
    IF \E k \in 1..Len(cache) : cache[k].sector = sector
    THEN <<cache[CHOOSE k \in 1..Len(cache) : cache[k].sector = sector]>>
    ELSE <<>>

\* info.get(key) on the dict get_info returns, {} when the symbol has none
InfoGet(info, key) == IF info = <<>> THEN <<>> ELSE info[1][key]

Tier(status, stress_score) == [status |-> status, stress_score |-> stress_score]

\* the tiers with the extreme disconnect tested before the growth defense
LogicGatesStretchFirst(primary_val, benchmark, peg) ==
    IF primary_val = <<>> THEN Tier("Insufficient Data", 0)
    ELSE LET n == IF benchmark.num = 0 THEN 1 ELSE primary_val[1] * benchmark.den
             d == IF benchmark.num = 0 THEN 1 ELSE benchmark.num
         IN  IF 4 * n < 3 * d THEN Tier("Undervalued", 30)
             ELSE IF 4 * n <= 5 * d THEN Tier("Fair Value", 50)
             ELSE IF 2 * n > 5 * d THEN Tier("Highly Stretched", 90)
             ELSE IF peg # <<>> /\ 0 < peg[1] /\ peg[1] < 15
             THEN Tier("Justified Premium", 60)
             ELSE IF 2 * n > 3 * d THEN Tier("Overvalued", 75)
             ELSE Tier("Premium", 65)

\* 4. Logic Gates: ratio = primary_val / benchmark_val is n / d, and 1.0 when
\* the benchmark is 0
LogicGates(primary_val, benchmark, peg) ==
    IF primary_val = <<>> THEN Tier("Insufficient Data", 0)
    ELSE LET n == IF benchmark.num = 0 THEN 1 ELSE primary_val[1] * benchmark.den
             d == IF benchmark.num = 0 THEN 1 ELSE benchmark.num
         IN  IF 4 * n < 3 * d THEN Tier("Undervalued", 30)
             ELSE IF 4 * n <= 5 * d THEN Tier("Fair Value", 50)
             ELSE IF peg # <<>> /\ 0 < peg[1] /\ peg[1] < 15
             THEN Tier("Justified Premium", 60)
             ELSE IF 2 * n > 5 * d THEN Tier("Highly Stretched", 90)
             ELSE IF 2 * n > 3 * d THEN Tier("Overvalued", 75)
             ELSE Tier("Premium", 65)

\* PHASE 2: valuation_output[symbol] for one row of the table
ValuationOutput(symbol, type, info, cache) ==
    IF type # "Equity"
    THEN [valuation_status |-> "Not Applicable", stress_score |-> 0]
    ELSE LET sector == SectorOrUnknown(symbol)
             is_financial == sector = "Financials"
             cached == CachedBenchmarks(cache, sector)
             primary_val == IF is_financial THEN InfoGet(info, "priceToBook")
                            ELSE InfoGet(info, "trailingPE")
             benchmark_val ==
                 IF is_financial
                 THEN IF cached # <<>> THEN cached[1].pb
                      ELSE [num |-> 300, den |-> 1]
                 ELSE IF cached # <<>> THEN cached[1].pe
                      ELSE [num |-> 200, den |-> 1]
             benchmark_source ==
                 IF cached = <<>> THEN "Fallback"
                 ELSE IF is_financial THEN cached[1].source_pb
                 ELSE cached[1].source_pe
             tier == LogicGates(primary_val, benchmark_val,
                                InfoGet(info, "pegRatio"))
         IN  [valuation_status |-> tier.status,
              stress_score |-> tier.stress_score,
              primary_metric |-> IF is_financial THEN "P/B" ELSE "P/E",
              primary_value |-> primary_val,
              benchmark_value |-> benchmark_val,
              benchmark_source |-> benchmark_source,
              peg_ratio |-> InfoGet(info, "pegRatio")]

-----------------------------------------------------------------------------
(* engines/opportunity_cost.py *)

\* A price history is <<>> (absent, empty, or too short for either engine) or
\* a record: the beta and volatility it realizes, its number of rows, and how
\* the last close stands against the 200-day and the 50-day average.  A return
\* on equity is held in hundredths, a momentum score in units, a capital drag
\* score in tenths.

\* THESIS_PENALTY.get(thesis_status, 0)
\* a variant that weighs a Weakening thesis as a Broken one
THESIS_PENALTYWeakeningAsBroken(thesis_status) ==
    CASE thesis_status = "Intact" -> 0
      [] thesis_status = "Weakening" -> 100
      [] thesis_status = "Broken" -> 100
      [] OTHER -> 0

THESIS_PENALTY(thesis_status) ==
    CASE thesis_status = "Intact" -> 0
      [] thesis_status = "Weakening" -> 40
      [] thesis_status = "Broken" -> 100
      [] OTHER -> 0

Clamp(lo, x, hi) == IF x < lo THEN lo ELSE IF x > hi THEN hi ELSE x

\* get_momentum_score
get_momentum_score(price_history) ==
    IF price_history = <<>> THEN 50
    ELSE IF price_history[1].rows < 200 THEN 50
    ELSE Clamp(0,
               50 + (IF price_history[1].above_ma_200 THEN 15 ELSE -15)
                  + (IF price_history[1].above_ma_50 THEN 10 ELSE -10)
                  + (IF price_history[1].ma_50_above_ma_200 THEN 5 ELSE 0),
               100)

\* info.get(key) or default: a missing value and a zero both give the default
GetOr(info, key, default) ==
    IF InfoGet(info, key) = <<>> \/ InfoGet(info, key)[1] = 0 THEN default
    ELSE InfoGet(info, key)[1]

\* evaluate_premium_switch: the kind of rationale it returns, "" being None
evaluate_premium_switch(h_info, c_info, h_hist, c_hist, is_emergency) ==
    IF c_info = <<>> \/ h_info = <<>> THEN ""
    ELSE LET h_roe == GetOr(h_info, "returnOnEquity", 10)
             c_roe == GetOr(c_info, "returnOnEquity", 10)
             h_pe == GetOr(h_info, "trailingPE", 1000)
             c_pe == GetOr(c_info, "trailingPE", 1000)
             h_peg == GetOr(h_info, "pegRatio", 50)
             c_peg == GetOr(c_info, "pegRatio", 50)
             c_mom == get_momentum_score(c_hist)
             h_mom == get_momentum_score(h_hist)
             quality_pass == \/ 10 * c_roe > 11 * h_roe
                             \/ (h_mom < 30 /\ c_mom > 60)
             value_pass == c_pe < h_pe \/ c_peg < 15 \/ is_emergency
         IN  IF is_emergency /\ c_roe > 12 THEN "Safety Switch"
             ELSE IF ~quality_pass THEN ""
             ELSE IF ~value_pass THEN ""
             ELSE IF c_mom < 40 THEN ""
             ELSE IF c_peg < h_peg /\ c_roe > h_roe THEN "Strategic Upgrade"
             ELSE IF 10 * c_pe < 8 * h_pe THEN "Valuation Arbitrage"
             ELSE IF h_mom < 30 /\ c_mom > 60 THEN "Momentum Flip"
             ELSE "Quality Upgrade"

\* Compute Drag Score, in tenths; risk_score is in hundredths
DragOf(thesis_status, val_stress, risk_score, mom_score) ==
    IF thesis_status = "Broken" THEN 1000
    ELSE LET risk_norm == IF risk_score * 5 < 10000 THEN risk_score * 5 ELSE 10000
             drag_score == THESIS_PENALTY(thesis_status) * 4500
                             + val_stress * 2000
                             + risk_norm * 15
                             + (100 - mom_score) * 2000
         IN  RoundHalfEven(IF drag_score < 1000000 THEN drag_score ELSE 1000000,
                           1000)

Bucket(drag_score) ==
    IF drag_score >= 800 THEN "Replace"
    ELSE IF drag_score >= 500 THEN "Monitor"
    ELSE "Defend"

\* market_data.info.get(symbol, {}) and market_data.price_history.get(symbol)
InfoOf(md, symbol) ==
    IF \E k \in 1..Len(md) : md[k].symbol = symbol
    THEN md[CHOOSE k \in 1..Len(md) : md[k].symbol = symbol].info
    ELSE <<>>

HistOf(md, symbol) ==
    IF \E k \in 1..Len(md) : md[k].symbol = symbol
    THEN md[CHOOSE k \in 1..Len(md) : md[k].symbol = symbol].stock_hist
    ELSE <<>>

\* map_yahoo_to_internal on an info record that carries neither a sector nor
\* an industry, as the info records here do: every test fails
map_yahoo_to_internal(y_info) == "Universal"

\* core/data_loader.py: the ticker a symbol is fetched under
\* (sym if sym.endswith(".NS") else sym + ".NS")
ApiTicker(sym) ==
    CASE sym = "ITC" -> "ITC.NS"
      [] sym = "HINDUNILVR" -> "HINDUNILVR.NS"
      [] sym = "HDFCBANK" -> "HDFCBANK.NS"
      [] OTHER -> sym

\* valid_switches: the candidates of the sector that are neither the holding
\* nor a row of the table and for which a rationale is returned
ValidSwitches(symbol, rows, md, bucket) ==
    LET sector == IF SectorOrUnknown(symbol) = "Unknown"
                  THEN map_yahoo_to_internal(InfoOf(md, symbol))
                  ELSE SectorOrUnknown(symbol)
        potential_candidates ==
            IF SECTOR_CAPTAINS(sector) # <<>> THEN SECTOR_CAPTAINS(sector)
            ELSE SECTOR_CAPTAINS("Universal")
        Valid(candidate) ==
            /\ candidate # symbol
            /\ \A k \in 1..Len(rows) : rows[k].symbol # candidate
            /\ evaluate_premium_switch(InfoOf(md, symbol), InfoOf(md, candidate),
                                       HistOf(md, symbol), HistOf(md, candidate),
                                       bucket = "Replace") # ""
    IN  SelectSeq(potential_candidates, Valid)

\* results[symbol] for an equity row; replacement_candidates holds the
\* symbols of valid_switches[:2], <<>> being None
OpportunityOutput(symbol, rows, md, thesis, val, risk) ==
    LET thesis_status == ThesisStatus([thesis |-> thesis])
        val_stress == ValStress([val |-> val])
        risk_score == IF risk = <<>> THEN 0 ELSE risk[1].risk_contribution_score
        mom_score == get_momentum_score(HistOf(md, symbol))
        drag_score == DragOf(thesis_status, val_stress, risk_score, mom_score)
        bucket == Bucket(drag_score)
        valid_switches == IF bucket \in {"Replace", "Monitor"}
                          THEN ValidSwitches(symbol, rows, md, bucket)
                          ELSE <<>>
    IN  [symbol |-> symbol,
         capital_drag_score |-> drag_score,
         momentum_health |-> mom_score,
         bucket |-> bucket,
         replacement_candidates |->
             SubSeq(valid_switches, 1,
                    IF Len(valid_switches) < 2 THEN Len(valid_switches) ELSE 2)]

\* opportunity_data.get(symbol, {})
OpportunityRecordOf(d, symbol) ==
    IF \E k \in 1..Len(d) : d[k].symbol = symbol
    THEN <<d[CHOOSE k \in 1..Len(d) : d[k].symbol = symbol]>>
    ELSE <<>>

-----------------------------------------------------------------------------
(* The run of run_decision_engine *)

NoFirst == [holding_actions |-> <<>>, result |-> NoResult]


NoRerun == [drag |-> 0, action |-> "", urgency |-> ""]

Fresh ==
    /\ df = <<>>
    /\ events_map = [s \in EventSymbols |-> NoEvent]
    /\ critical_listed = {}
    /\ cur = NoRow
    /\ holding_actions = <<>>
    /\ result = NoResult
    /\ rerun = NoRerun
    /\ market_data = <<>>
    /\ holdings_risk = <<>>
    /\ exposure = NoExposure
    /\ risk_output = NoRiskOutput
    /\ row_no = 0
    /\ news = <<>>
    /\ item_no = 0
    /\ stock_events = <<>>
    /\ seen_headlines = <<>>
    /\ event_data = <<>>
    /\ run = 1
    /\ first = NoFirst
    /\ financial_data = <<>>
    /\ deterioration_count = 0
    /\ sector_benchmarks_cache = <<>>
    /\ valuation_output = <<>>
    /\ opportunity_output = <<>>

\* run_decision_engine is entered with its engine outputs at hand
Init ==
    /\ pc = "index"
    /\ thesis_data = <<>>
    /\ Fresh

\* _index_events reads one event of event_list
IndexEvent(symbols) ==
    /\ pc = "index"
    /\ \E sym \in symbols, imp \in Impacts :
        LET e == [symbol |-> sym, impact |-> imp, headline |-> "h1"]
        IN  /\ events_map' = IndexOne(events_map, e)
            /\ critical_listed' =
                 IF e.impact \in CriticalImpacts
                 THEN critical_listed \cup {e.symbol} ELSE critical_listed
    /\ UNCHANGED <<pc, df, cur, holding_actions, result, rerun, upstream>>

\* event_list is exhausted (or empty, or None): the evaluation loop starts
EndIndex ==
    /\ pc = "index"
    /\ pc' = "eval"
    /\ UNCHANGED <<df, events_map, critical_listed, cur, holding_actions,
                   result, rerun, upstream>>

\* the non-equity `continue` taken before the verdict is stored
EvaluateRowDropsNonEquity(in) ==
    /\ cur' = in
    /\ holding_actions' =
         IF in.symbol = "" \/ in.instrument_type # "Equity" THEN holding_actions
         ELSE DictSet(holding_actions, in.symbol, RowVerdict(in, events_map))

\* A. Default State set once before the loop: a row no rule fires for keeps
\* the action, reason and urgency the row before it ended with
EvaluateRowKeepsLastAction(in) ==
    /\ cur' = in
    /\ holding_actions' =
         IF in.symbol = "" THEN holding_actions
         ELSE LET v == RowVerdict(in, events_map)
                  n == Len(holding_actions)
              IN  IF /\ n > 0
                     /\ in.instrument_type = "Equity"
                     /\ v.action = "HOLD"
                  THEN DictSet(holding_actions, in.symbol,
                               [v EXCEPT !.action = holding_actions[n].action,
                                         !.reason = holding_actions[n].reason,
                                         !.urgency = holding_actions[n].urgency])
                  ELSE DictSet(holding_actions, in.symbol, v)

\* one iteration of the evaluation loop, on the row `in` with its records
EvaluateRow(in) ==
    /\ cur' = in
    /\ holding_actions' =
         IF in.symbol = "" THEN holding_actions
         ELSE DictSet(holding_actions, in.symbol, RowVerdict(in, events_map))

\* the table is exhausted: 4. Portfolio-Level Prioritization, and return
Prioritize ==
    /\ pc = "eval"
    /\ result' = ReturnValue(holding_actions)
    /\ pc' = "done"
    /\ UNCHANGED <<df, events_map, critical_listed, cur, holding_actions, rerun,
                   upstream>>

-----------------------------------------------------------------------------
(* One holding, with every combination of its records *)

\* df.iterrows() yields a row, and the loop evaluates it
ReadRow(in) ==
    /\ df' = Append(df, [symbol |-> in.symbol,
                         instrument_type |-> in.instrument_type])
    /\ EvaluateRow(in)

\* the only row of the table, its records drawn from every combination
RuleRow ==
    /\ pc = "eval"
    /\ df = <<>>
    /\ \E ty \in InstrumentTypes, th \in ThesisRecords, va \in ValuationRecords,
          op \in OpportunityRecords, ri \in RiskRecords :
        ReadRow(Input(SymbolNames[1], ty, th, va, op, ri))
    /\ UNCHANGED <<pc, events_map, critical_listed, result, rerun, upstream>>

\* the engine runs again on the same inputs but a higher capital_drag_score
RerunHigherDrag ==
    /\ pc = "done"
    /\ cur # NoRow
    /\ cur.opp # <<>>
    /\ \E d \in DragScores :
        /\ d > DragScore(cur)
        /\ LET in2 == [cur EXCEPT !.opp[1].capital_drag_score = d]
               v == RowVerdict(in2, events_map)
           IN  rerun' = [drag |-> d, action |-> v.action, urgency |-> v.urgency]
    /\ pc' = "rerun"
    /\ UNCHANGED <<df, events_map, critical_listed, cur, holding_actions, result,
                   upstream>>

NextRule ==
    \/ IndexEvent({SymbolNames[1]})
    \/ EndIndex
    \/ RuleRow
    \/ Prioritize
    \/ RerunHigherDrag

SpecRule == Init /\ [][NextRule]_vars

-----------------------------------------------------------------------------
(* Short tables: every order of the rule profiles, with events *)

Profile(named, type, th, va, op, ri) ==
    [named |-> named, instrument_type |-> type, thesis |-> th, val |-> va,
     opp |-> op, risk |-> ri]

Opp(d, m, c) ==
    <<[capital_drag_score |-> d, momentum_health |-> m,
       replacement_candidates |-> c]>>

BrokenProfile ==
    Profile(TRUE, "Equity", <<[status |-> "Broken"]>>, <<>>, <<>>, <<>>)
LiquidityProfile ==
    Profile(TRUE, "Equity", <<[status |-> "Intact"]>>, <<>>, <<>>,
            <<[risk_tag |-> "Critical (Liquidity)"]>>)
ReplaceProfile ==
    Profile(TRUE, "Equity", <<[status |-> "Weakening"]>>, <<>>,
            Opp(850, 50, <<"TCS.NS">>), <<>>)
DeadCapitalProfile ==
    Profile(TRUE, "Equity", <<[status |-> "Weakening"]>>, <<>>,
            Opp(850, 50, <<>>), <<>>)
ProfitBookingProfile ==
    Profile(TRUE, "Equity", <<[status |-> "Intact"]>>,
            <<[stress_score |-> 90]>>, Opp(0, 76, <<>>), <<>>)
WatchProfile ==
    Profile(TRUE, "Equity", <<[status |-> "Intact"]>>,
            <<[stress_score |-> 75]>>, <<>>, <<>>)
NoRecordsProfile == Profile(TRUE, "Equity", <<>>, <<>>, <<>>, <<>>)
GoldBondProfile ==
    Profile(TRUE, "SGB", <<[status |-> "Not Applicable"]>>, <<>>, <<>>, <<>>)
NoSymbolProfile == Profile(FALSE, "Equity", <<>>, <<>>, <<>>, <<>>)

RuleProfiles ==
    {BrokenProfile, LiquidityProfile, ReplaceProfile, ProfitBookingProfile,
     WatchProfile, NoRecordsProfile, GoldBondProfile, NoSymbolProfile}

RankProfiles ==
    {BrokenProfile, ReplaceProfile, DeadCapitalProfile, ProfitBookingProfile,
     WatchProfile, NoRecordsProfile}

\* the table yields its next row: row i carries the i-th symbol, or none
ProfileRow(p) ==
    ReadRow(Input(IF p.named THEN SymbolNames[Len(df) + 1] ELSE "",
                  p.instrument_type, p.thesis, p.val, p.opp, p.risk))

NextRow ==
    /\ pc = "eval"
    /\ Len(df) < MaxRows
    /\ \E p \in RuleProfiles : ProfileRow(p)
    /\ UNCHANGED <<pc, events_map, critical_listed, result, rerun, upstream>>

Next ==
    \/ IndexEvent(EventSymbols)
    \/ EndIndex
    \/ NextRow
    \/ Prioritize

Spec == Init /\ [][Next]_vars

-----------------------------------------------------------------------------
(* Long tables: FillerRows rows of one profile, then the ranked profiles *)

FillerRow ==
    /\ pc = "eval"
    /\ Len(df) < FillerRows
    /\ ProfileRow(LiquidityProfile)
    /\ UNCHANGED <<pc, events_map, critical_listed, result, rerun, upstream>>

RankedRow ==
    /\ pc = "eval"
    /\ Len(df) >= FillerRows
    /\ Len(df) < FillerRows + MaxRows
    /\ \E p \in RankProfiles : ProfileRow(p)
    /\ UNCHANGED <<pc, events_map, critical_listed, result, rerun, upstream>>

NextRank ==
    \/ EndIndex
    \/ FillerRow
    \/ RankedRow
    \/ Prioritize

SpecRank == Init /\ [][NextRank]_vars

-----------------------------------------------------------------------------
(* run_risk_engine, then run_decision_engine on its output *)

\* market_data.info.get(symbol, {}), the market cap in crore rupees
InfoRecords == {<<>>} \cup {<<[marketCap |-> m]>> : m \in {5000, 5001, 20001}}

\* market_data.price_history.get(symbol)
HistRecords == {<<>>} \cup
    {<<[beta |-> b, vol |-> v]>> : b \in {50, 150, 151}, v \in {40, 41}}

\* weights in tenths of percent, around the thresholds 5.0 and 7.0
Weights == {50, 51, 70, 71}

\* the records the other engines hold for the first holding
HeldRecords ==
    {[thesis |-> <<[status |-> t]>>, val |-> r.val, opp |-> r.opp] :
        t \in {"Intact", "Broken"},
        r \in {[val |-> <<>>, opp |-> <<>>],
               [val |-> <<[stress_score |-> 90]>>,
                opp |-> Opp(1000, 39, <<"TCS.NS">>)],
               [val |-> <<[stress_score |-> 90]>>,
                opp |-> Opp(1000, 76, <<>>)]}}

\* the holdings that make up the rest of the table
RestHoldings ==
    {[gold |-> TRUE, info |-> <<>>, hist |-> <<>>],
     [gold |-> FALSE, info |-> <<[marketCap |-> 20001]>>, hist |-> <<>>],
     [gold |-> FALSE, info |-> <<[marketCap |-> 5000]>>,
      hist |-> <<[beta |-> 151, vol |-> 41]>>]}

\* the weight the rows read so far leave to the rest of the table
Remainder == 1000 - SumSeq([k \in 1..Len(df) |-> df[k].weight_pct])

\* one iteration of the row loop of run_risk_engine
RiskStep(symbol, weight_pct, info, stock_hist) ==
    LET type == classify_instrument(symbol)
        rec == HoldingRisk(symbol, type, weight_pct, info, stock_hist)
    IN  /\ df' = Append(df, [symbol |-> symbol, instrument_type |-> type,
                             weight_pct |-> weight_pct])
        /\ market_data' = Append(market_data, [symbol |-> symbol, info |-> info,
                                               stock_hist |-> stock_hist])
        /\ holdings_risk' = RiskSet(holdings_risk, rec)
        /\ exposure' = Accumulate(exposure, rec, weight_pct)

\* the weights a row may carry: the last row takes what is left of 100%
RowWeights ==
    IF Len(df) + 1 = MaxHoldings THEN {Remainder}
    ELSE {w \in Weights \cup {Remainder} : w <= Remainder}

\* the first row of the table: an equity holding with any market data
RiskFirstRow ==
    /\ pc = "risk"
    /\ df = <<>>
    /\ \E w \in RowWeights, info \in InfoRecords, hist \in HistRecords :
        RiskStep(SymbolNames[1], w, info, hist)
    /\ UNCHANGED <<pc, events_map, critical_listed, cur, holding_actions, result,
                   rerun, risk_output, row_no, eventVars, engineVars>>

\* a further row of the table
RiskRestRow ==
    /\ pc = "risk"
    /\ df # <<>>
    /\ Len(df) < MaxHoldings
    /\ Remainder > 0
    /\ \E w \in RowWeights, h \in RestHoldings :
        LET symbol == IF h.gold THEN GoldBondSymbol ELSE SymbolNames[Len(df) + 1]
        IN  /\ \A k \in 1..Len(df) : df[k].symbol # symbol
            /\ RiskStep(symbol, w, h.info, h.hist)
    /\ UNCHANGED <<pc, events_map, critical_listed, cur, holding_actions, result,
                   rerun, risk_output, row_no, eventVars, engineVars>>

\* the table is exhausted: concentration checks, final assembly, and the
\* decision engine is entered
RiskFinish ==
    /\ pc = "risk"
    /\ df # <<>>
    /\ Remainder = 0
    /\ risk_output' = RiskOutput(df, exposure)
    /\ pc' = "index"
    /\ UNCHANGED <<df, events_map, critical_listed, cur, holding_actions, result,
                   rerun, market_data, holdings_risk, exposure, row_no,
                   eventVars, engineVars>>

\* the evaluation loop reads the next row of the table and its risk record
PipelineRow ==
    /\ pc = "eval"
    /\ row_no < Len(df)
    /\ LET row == df[row_no + 1]
       IN  \E r \in HeldRecords :
             EvaluateRow(Input(row.symbol, row.instrument_type,
                               IF row_no = 0 THEN r.thesis ELSE <<>>,
                               IF row_no = 0 THEN r.val ELSE <<>>,
                               IF row_no = 0 THEN r.opp ELSE <<>>,
                               RiskRecordOf(holdings_risk, row.symbol)))
    /\ row_no' = row_no + 1
    /\ UNCHANGED <<pc, df, events_map, critical_listed, result, rerun,
                   market_data, holdings_risk, exposure, risk_output, eventVars,
                   engineVars>>

PipelinePrioritize ==
    /\ row_no = Len(df)
    /\ Prioritize

InitPipeline ==
    /\ pc = "risk"
    /\ thesis_data = <<>>
    /\ Fresh

NextPipeline ==
    \/ RiskFirstRow
    \/ RiskRestRow
    \/ RiskFinish
    \/ IndexEvent({SymbolNames[1]})
    \/ EndIndex
    \/ PipelineRow
    \/ PipelinePrioritize

SpecPipeline == InitPipeline /\ [][NextPipeline]_vars

-----------------------------------------------------------------------------
(* run_events_engine, then run_decision_engine on its output, run twice *)

\* the thesis records of the holding
NewsTheses == {<<>>, <<[status |-> "Weakening"]>>, <<[status |-> "Broken"]>>}

\* an item of raw_news: its date against the cutoff, which is the same in
\* both runs, its title, and the headline the title is
NewsItem(date, titled, headline) ==
    [date |-> date, titled |-> titled, headline |-> headline]

\* the items read: what a scan never looks at is left plain
\* (the first item may match two patterns, a later one matches at most one)
Regular(date, titled, noise, m1, m2, keyword) ==
    /\ m1 <= m2
    /\ (m1 # 0 => news = <<>>)
    /\ m1 = m2 => m1 = 0
    /\ (date # "recent" \/ ~titled) => (~noise /\ m2 = 0 /\ keyword = "none")
    /\ (date # "recent") => titled
    /\ noise => (m1 = 0 /\ m2 = 1 /\ keyword = "none")
    /\ keyword # "none" => SumWeights({m1, m2} \ {0}) = 0

\* D. Analysis of one item of raw_news, with A, B and C before it
AnalyzeItem(item) ==
    /\ item_no' = item_no + 1
    /\ IF \/ item.date # "recent"
          \/ ~item.titled
          \/ is_duplicate(item.headline, seen_headlines)
       THEN UNCHANGED <<stock_events, seen_headlines>>
       ELSE \E analysis \in analyze_headline(item.headline,
                                              ThesisStatus([thesis |-> thesis_data])) :
              IF analysis = <<>>
              THEN UNCHANGED <<stock_events, seen_headlines>>
              ELSE /\ seen_headlines' = Append(seen_headlines, item.headline)
                   /\ stock_events' = Append(stock_events,
                        [symbol |-> SymbolNames[1],
                         headline |-> analysis[1].headline,
                         impact |-> analysis[1].category,
                         confidence_effect |-> analysis[1].confidence_effect,
                         score |-> analysis[1].impact_score])

\* the first run reads the next item of raw_news
ReadItem ==
    /\ pc = "events"
    /\ run = 1
    /\ Len(news) < MaxNews
    /\ \E date \in {"recent", "old", "none"}, titled \in BOOLEAN,
          noise \in BOOLEAN, m1 \in 0..Len(PATTERNS), m2 \in 0..Len(PATTERNS),
          keyword \in {"none", "neg", "pos"}, story \in 1..(Len(news) + 1) :
        /\ Regular(date, titled, noise, m1, m2, keyword)
        /\ LET item == NewsItem(date, titled,
                                Headline(story, noise, {m1, m2} \ {0}, keyword))
           IN  /\ news' = Append(news, item)
               /\ AnalyzeItem(item)
    /\ UNCHANGED <<pc, df, events_map, critical_listed, cur, holding_actions,
                   result, rerun, riskVars, thesis_data, event_data, run, first,
                   engineVars>>

\* the second run reads the same item
ReplayItem ==
    /\ pc = "events"
    /\ run = 2
    /\ item_no < Len(news)
    /\ AnalyzeItem(news[item_no + 1])
    /\ UNCHANGED <<pc, df, events_map, critical_listed, cur, holding_actions,
                   result, rerun, riskVars, thesis_data, news, event_data, run,
                   first, engineVars>>

\* raw_news is exhausted: E. Intelligent Sorting, and the engine returns
FinishEvents ==
    /\ pc = "events"
    /\ item_no = Len(news)
    /\ event_data' = TopEvents(SortBySeverity(stock_events))
    /\ pc' = "index"
    /\ UNCHANGED <<df, events_map, critical_listed, cur, holding_actions, result,
                   rerun, riskVars, thesis_data, news, item_no, stock_events,
                   seen_headlines, run, first, engineVars>>

\* _index_events reads the next event of the list the events engine returned
IndexListed ==
    /\ pc = "index"
    /\ event_data # <<>>
    /\ events_map' = IndexOne(events_map, Head(event_data))
    /\ critical_listed' =
         IF Head(event_data).impact \in CriticalImpacts
         THEN critical_listed \cup {Head(event_data).symbol}
         ELSE critical_listed
    /\ event_data' = Tail(event_data)
    /\ UNCHANGED <<pc, df, cur, holding_actions, result, rerun, riskVars,
                   thesis_data, news, item_no, stock_events, seen_headlines,
                   run, first, engineVars>>

EndIndexListed ==
    /\ event_data = <<>>
    /\ EndIndex

\* the row of the holding, with the thesis record the events engine read
NewsRow ==
    /\ pc = "eval"
    /\ df = <<>>
    /\ ReadRow(Input(SymbolNames[1], "Equity", thesis_data, <<>>, <<>>, <<>>))
    /\ UNCHANGED <<pc, events_map, critical_listed, result, rerun, upstream>>

NewsPrioritize ==
    /\ df # <<>>
    /\ Prioritize

\* the pipeline is run again on the same holdings and market data
SecondRun ==
    /\ pc = "done"
    /\ run = 1
    /\ first' = [holding_actions |-> holding_actions, result |-> result]
    /\ run' = 2
    /\ pc' = "events"
    /\ df' = <<>>
    /\ events_map' = [s \in EventSymbols |-> NoEvent]
    /\ critical_listed' = {}
    /\ cur' = NoRow
    /\ holding_actions' = <<>>
    /\ result' = NoResult
    /\ item_no' = 0
    /\ stock_events' = <<>>
    /\ seen_headlines' = <<>>
    /\ event_data' = <<>>
    /\ UNCHANGED <<rerun, riskVars, thesis_data, news, engineVars>>

InitTwice ==
    /\ pc = "events"
    /\ thesis_data \in NewsTheses
    /\ Fresh

NextTwice ==
    \/ ReadItem
    \/ ReplayItem
    \/ FinishEvents
    \/ IndexListed
    \/ EndIndexListed
    \/ NewsRow
    \/ NewsPrioritize
    \/ SecondRun

SpecTwice == InitTwice /\ [][NextTwice]_vars

-----------------------------------------------------------------------------
(* run_thesis_engine, then run_decision_engine on its output *)

\* the symbols of a table of one holding: FMCG, Financials and a gold bond
ThesisSymbols == {SymbolNames[1], "HDFCBANK", GoldBondSymbol}

\* ticker.financials: the series of its rows, latest period first
RevenueSeries ==
    {<<>>, <<100>>, <<80, 90, 100>>, <<100, 90, 80>>, <<90, 90, 100>>,
     <<95, 100, 100>>}
NetIncomeSeries == {<<>>, <<8, 10>>, <<10, 8>>}
OperatingIncomeSeries ==
    {<<>>, <<12, 10>>, <<12, 20>>, <<15, 10>>, <<29, 20>>, <<30, 20>>}
InterestExpenseSeries == {<<>>, <<-10>>, <<10>>, <<0>>}

\* ticker.balance_sheet
TotalDebtSeries == {<<>>, <<100>>, <<101>>}
TotalEquitySeries == {<<>>, <<100, 110>>, <<100, 90>>, <<-50, -40>>}

\* the risk records the decision engine is given for the holding
ThesisRiskRecords == {<<>>, <<[risk_tag |-> "Critical (Liquidity)"]>>}

\* the row loop of run_thesis_engine on the only row of the table; the
\* statements are fetched for an equity row only
ThesisStep(symbol, statements) ==
    LET type == classify_instrument(symbol)
    IN  /\ df' = <<[symbol |-> symbol, instrument_type |-> type]>>
        /\ financial_data' = IF type = "Equity" THEN <<statements>> ELSE <<>>
        /\ deterioration_count' = CountOf(symbol, type, statements)
        /\ thesis_data' = <<ThesisOutput(symbol, type, statements)>>
        /\ pc' = "index"

\* a holding whose ticker gave both statements
ThesisRow ==
    /\ pc = "thesis"
    /\ \E symbol \in ThesisSymbols,
          revenue \in RevenueSeries, net_income \in NetIncomeSeries,
          operating_income \in OperatingIncomeSeries,
          interest_expense \in InterestExpenseSeries,
          total_debt \in TotalDebtSeries, total_equity \in TotalEquitySeries :
        ThesisStep(symbol,
            [financials |-> <<[revenue |-> revenue, net_income |-> net_income,
                               operating_income |-> operating_income,
                               interest_expense |-> interest_expense]>>,
             balance_sheet |-> <<[total_debt |-> total_debt,
                                  total_equity |-> total_equity]>>])
    /\ UNCHANGED <<events_map, critical_listed, cur, holding_actions, result,
                   rerun, riskVars, news, item_no, stock_events, seen_headlines,
                   event_data, run, first, sector_benchmarks_cache,
                   valuation_output, opportunity_output>>

\* a holding whose ticker gave no balance sheet, or no statement at all
ThesisRowWithoutStatement ==
    /\ pc = "thesis"
    /\ \E symbol \in ThesisSymbols,
          revenue \in {<<>>, <<80, 90, 100>>},
          operating_income \in {<<12, 20>>, <<30, 20>>} :
        ThesisStep(symbol,
            [financials |->
                 IF revenue = <<>> THEN <<>>
                 ELSE <<[revenue |-> revenue, net_income |-> <<8, 10>>,
                         operating_income |-> operating_income,
                         interest_expense |-> <<-10>>]>>,
             balance_sheet |-> <<>>])
    /\ UNCHANGED <<events_map, critical_listed, cur, holding_actions, result,
                   rerun, riskVars, news, item_no, stock_events, seen_headlines,
                   event_data, run, first, sector_benchmarks_cache,
                   valuation_output, opportunity_output>>

\* the evaluation loop reads the row and the thesis record made for it
ThesisVerdictRow ==
    /\ pc = "eval"
    /\ row_no < Len(df)
    /\ \E ri \in ThesisRiskRecords :
        EvaluateRow(Input(df[row_no + 1].symbol, df[row_no + 1].instrument_type,
                          thesis_data, <<>>, <<>>, ri))
    /\ row_no' = row_no + 1
    /\ UNCHANGED <<pc, df, events_map, critical_listed, result, rerun,
                   market_data, holdings_risk, exposure, risk_output, eventVars,
                   engineVars>>

InitThesis ==
    /\ pc = "thesis"
    /\ thesis_data = <<>>
    /\ Fresh

NextThesis ==
    \/ ThesisRow
    \/ ThesisRowWithoutStatement
    \/ IndexEvent({SymbolNames[1]})
    \/ EndIndex
    \/ ThesisVerdictRow
    \/ PipelinePrioritize

SpecThesis == InitThesis /\ [][NextThesis]_vars

-----------------------------------------------------------------------------
(* run_events_engine on a holding with news and a holding without, then
   run_decision_engine *)

\* what market_data.news holds for a symbol without news: no key (the lookup
\* gives []), an empty list, or None; `not raw_news` holds of each
NoNews == {"absent", "empty", "None"}

\* the headlines of the holding with news: a governance story, a regulatory
\* story, an earnings miss, or noise
LoudMatches == {{1}, {3}, {8}, {}}

\* the records the engines hold for the holding without news
QuietProfiles ==
    {BrokenProfile, LiquidityProfile, ReplaceProfile, ProfitBookingProfile,
     WatchProfile, NoRecordsProfile}

\* the events engine reads the first row, a holding whose news list is not empty
LoudRow ==
    /\ pc = "loud"
    /\ df' = <<[symbol |-> SymbolNames[1], instrument_type |-> "Equity"]>>
    /\ pc' = "events"
    /\ UNCHANGED <<events_map, critical_listed, cur, holding_actions, result,
                   rerun, upstream>>

\* and the next item of its raw_news
LoudItem ==
    /\ pc = "events"
    /\ Len(news) < MaxNews
    /\ \E matches \in LoudMatches :
        LET item == NewsItem("recent", TRUE,
                             Headline(Len(news) + 1, matches = {}, matches,
                                      "none"))
        IN  /\ news' = Append(news, item)
            /\ AnalyzeItem(item)
    /\ UNCHANGED <<pc, df, events_map, critical_listed, cur, holding_actions,
                   result, rerun, riskVars, thesis_data, event_data, run, first,
                   engineVars>>

\* its raw_news is exhausted: E. Intelligent Sorting, results.extend
LoudFinish ==
    /\ pc = "events"
    /\ news # <<>>
    /\ event_data' = TopEvents(SortBySeverity(stock_events))
    /\ pc' = "quiet"
    /\ UNCHANGED <<df, events_map, critical_listed, cur, holding_actions, result,
                   rerun, riskVars, thesis_data, news, item_no, stock_events,
                   seen_headlines, run, first, engineVars>>

\* the second row, a holding without news: `if not raw_news: continue`, and
\* the engine returns
QuietRow ==
    /\ pc = "quiet"
    /\ \E held \in NoNews :
        /\ market_data' = Append(market_data,
                                 [symbol |-> SymbolNames[2], news |-> held])
        /\ event_data' = event_data
    /\ df' = Append(df, [symbol |-> SymbolNames[2], instrument_type |-> "Equity"])
    /\ pc' = "index"
    /\ UNCHANGED <<events_map, critical_listed, cur, holding_actions, result,
                   rerun, holdings_risk, exposure, risk_output, row_no,
                   thesis_data, news, item_no, stock_events, seen_headlines,
                   run, first, engineVars>>

\* the evaluation loop reads the next row with the records held for it
QuietVerdictRow ==
    /\ pc = "eval"
    /\ row_no < Len(df)
    /\ IF row_no = 0
       THEN EvaluateRow(Input(df[1].symbol, df[1].instrument_type, thesis_data,
                              <<>>, <<>>, <<>>))
       ELSE \E p \in QuietProfiles :
              EvaluateRow(Input(df[row_no + 1].symbol,
                                df[row_no + 1].instrument_type,
                                p.thesis, p.val, p.opp, p.risk))
    /\ row_no' = row_no + 1
    /\ UNCHANGED <<pc, df, events_map, critical_listed, result, rerun,
                   market_data, holdings_risk, exposure, risk_output, eventVars,
                   engineVars>>

InitQuiet ==
    /\ pc = "loud"
    /\ thesis_data \in NewsTheses
    /\ Fresh

NextQuiet ==
    \/ LoudRow
    \/ LoudItem
    \/ LoudFinish
    \/ QuietRow
    \/ IndexListed
    \/ EndIndexListed
    \/ QuietVerdictRow
    \/ PipelinePrioritize

SpecQuiet == InitQuiet /\ [][NextQuiet]_vars

-----------------------------------------------------------------------------
(* run_valuation_engine on a table of one holding *)

\* unknown sector (no captain), FMCG, Financials, and a gold bond
ValuationSymbols == {"INFY", SymbolNames[1], "HDFCBANK", GoldBondSymbol}

\* get_info of a sector captain: nothing, a loss maker without book value,
\* or a P/E (tenths) and a P/B (hundredths)
CaptainInfos ==
    {<<>>,
     <<[trailingPE |-> <<-50>>, priceToBook |-> <<>>]>>,
     <<[trailingPE |-> <<150>>, priceToBook |-> <<150>>]>>,
     <<[trailingPE |-> <<250>>, priceToBook |-> <<250>>]>>}

\* the primary metric of the holding: around 0.75, 1.25, 1.5 and 2.5 times a
\* benchmark of 200, twice that benchmark, zero and negative
PrimaryValues ==
    {<<>>, <<-100>>, <<0>>, <<149>>, <<150>>, <<250>>, <<251>>, <<300>>, <<301>>,
     <<400>>, <<500>>, <<501>>}

\* the metric that is not the primary one of the sector
OtherValues == {<<>>, <<150>>, <<400>>, <<501>>}

PegValues == {<<>>, <<-5>>, <<0>>, <<9>>, <<15>>}

\* PHASE 1 for the sector of the only row
BenchmarkStep(symbol, infos) ==
    /\ df' = <<[symbol |-> symbol,
                instrument_type |-> classify_instrument(symbol)]>>
    /\ market_data' = <<[symbol |-> symbol, captains |-> infos]>>
    /\ sector_benchmarks_cache' =
         <<SectorBenchmarks(SectorOrUnknown(symbol), infos)>>

\* PHASE 2 for the only row
ValuationStep(info) ==
    /\ market_data' = Append(market_data,
                             [symbol |-> df[1].symbol, info |-> info])
    /\ valuation_output' =
         <<ValuationOutput(df[1].symbol, df[1].instrument_type, info,
                           sector_benchmarks_cache)>>

\* the infos of the captains of a sector, as many as it lists
CaptainsOf(symbol, c1, c2, c3) ==
    SubSeq(<<c1, c2, c3>>, 1, CaptainCount(SectorOrUnknown(symbol)))

ValuationBenchmarks ==
    /\ pc = "benchmarks"
    /\ \E symbol \in ValuationSymbols,
          c1 \in CaptainInfos, c2 \in CaptainInfos, c3 \in CaptainInfos :
        BenchmarkStep(symbol, CaptainsOf(symbol, c1, c2, c3))
    /\ pc' = "valuation"
    /\ UNCHANGED <<events_map, critical_listed, cur, holding_actions, result,
                   rerun, holdings_risk, exposure, risk_output, row_no,
                   eventVars, financial_data, deterioration_count,
                   valuation_output, opportunity_output>>

\* the info of the holding: its P/E, P/B and PEG, each of which may be missing
ValuationRow ==
    /\ pc = "valuation"
    /\ \E primary \in PrimaryValues, other \in OtherValues, peg \in PegValues :
        ValuationStep(
            IF SectorOrUnknown(df[1].symbol) = "Financials"
            THEN <<[trailingPE |-> other, priceToBook |-> primary,
                    pegRatio |-> peg]>>
            ELSE <<[trailingPE |-> primary, priceToBook |-> other,
                    pegRatio |-> peg]>>)
    /\ pc' = "valued"
    /\ UNCHANGED <<df, events_map, critical_listed, cur, holding_actions, result,
                   rerun, holdings_risk, exposure, risk_output, row_no,
                   eventVars, financial_data, deterioration_count,
                   sector_benchmarks_cache, opportunity_output>>

\* market_data.info has no entry for the symbol: get_info returns {}
ValuationRowWithoutInfo ==
    /\ pc = "valuation"
    /\ ValuationStep(<<>>)
    /\ pc' = "valued"
    /\ UNCHANGED <<df, events_map, critical_listed, cur, holding_actions, result,
                   rerun, holdings_risk, exposure, risk_output, row_no,
                   eventVars, financial_data, deterioration_count,
                   sector_benchmarks_cache, opportunity_output>>

InitValuation ==
    /\ pc = "benchmarks"
    /\ thesis_data = <<>>
    /\ Fresh

NextValuation ==
    \/ ValuationBenchmarks
    \/ ValuationRow
    \/ ValuationRowWithoutInfo

SpecValuation == InitValuation /\ [][NextValuation]_vars

-----------------------------------------------------------------------------
(* The engines composed: valuation, risk, opportunity cost, then decision *)

\* the holding: an FMCG or a Financials symbol
ComposeSymbols == {SymbolNames[1], "HDFCBANK"}

\* its weight in tenths of percent; a gold bond holds the rest of the table
ComposeWeights == {10, 71, 1000}

\* its info: market cap (crore), P/E (tenths), P/B (hundredths), PEG (tenths),
\* return on equity (hundredths)
ComposeInfos == {<<>>} \cup
    {<<[marketCap |-> m, trailingPE |-> v, priceToBook |-> v, pegRatio |-> g,
        returnOnEquity |-> <<>>]>> :
        m \in {5000, 20001}, v \in {<<>>, <<150>>, <<501>>}, g \in {<<>>, <<9>>}}

\* its price history: none, three months, or a year in a down or an up trend;
\* the beta it realizes against the benchmark is 1.0, 1.51 or -0.5
ComposeHists == {<<>>} \cup
    {<<[beta |-> b.beta, vol |-> b.vol, rows |-> t.rows,
        above_ma_200 |-> t.up, above_ma_50 |-> t.up,
        ma_50_above_ma_200 |-> t.up]>> :
        b \in {[beta |-> 100, vol |-> 20], [beta |-> 151, vol |-> 41],
               [beta |-> -50, vol |-> 20]},
        t \in {[rows |-> 120, up |-> FALSE], [rows |-> 250, up |-> FALSE],
               [rows |-> 250, up |-> TRUE]}}

\* its thesis record
ComposeTheses ==
    {<<>>} \cup {<<[status |-> t]>> : t \in {"Intact", "Weakening", "Broken"}}

\* what market_data holds for a captain of its sector: nothing, a
\* strong company in an up trend, a weak one in a down trend, or one of
\* middling return on equity (13%) in a down trend
CaptainData ==
    {[info |-> <<>>, stock_hist |-> <<>>],
     [info |-> <<[marketCap |-> 20001, trailingPE |-> <<200>>,
                  priceToBook |-> <<200>>, pegRatio |-> <<10>>,
                  returnOnEquity |-> <<20>>]>>,
      stock_hist |-> <<[beta |-> 100, vol |-> 20, rows |-> 250,
                        above_ma_200 |-> TRUE, above_ma_50 |-> TRUE,
                        ma_50_above_ma_200 |-> TRUE]>>],
     [info |-> <<[marketCap |-> 20001, trailingPE |-> <<200>>,
                  priceToBook |-> <<200>>, pegRatio |-> <<>>,
                  returnOnEquity |-> <<5>>]>>,
      stock_hist |-> <<[beta |-> 100, vol |-> 20, rows |-> 250,
                        above_ma_200 |-> FALSE, above_ma_50 |-> FALSE,
                        ma_50_above_ma_200 |-> FALSE]>>],
     [info |-> <<[marketCap |-> 20001, trailingPE |-> <<200>>,
                  priceToBook |-> <<200>>, pegRatio |-> <<>>,
                  returnOnEquity |-> <<13>>]>>,
      stock_hist |-> <<[beta |-> 100, vol |-> 20, rows |-> 250,
                        above_ma_200 |-> FALSE, above_ma_50 |-> FALSE,
                        ma_50_above_ma_200 |-> FALSE]>>]}

\* the first captain of the sector of the holding that is another stock
PeerCaptain(symbol) ==
    LET captains == SECTOR_CAPTAINS(SectorOrUnknown(symbol))
    IN  captains[CHOOSE k \in 1..Len(captains) :
                    /\ captains[k] # ApiTicker(symbol)
                    /\ \A j \in 1..(k - 1) : captains[j] = ApiTicker(symbol)]

\* the table and the market data are loaded
LoadTable ==
    /\ pc = "load"
    /\ \E symbol \in ComposeSymbols, w \in ComposeWeights, info \in ComposeInfos,
          hist \in ComposeHists, th \in ComposeTheses, c \in CaptainData :
        /\ df' = <<[symbol |-> symbol,
                    instrument_type |-> classify_instrument(symbol),
                    weight_pct |-> w]>>
                 \o (IF w < 1000
                     THEN <<[symbol |-> GoldBondSymbol,
                             instrument_type |-> classify_instrument(GoldBondSymbol),
                             weight_pct |-> 1000 - w]>>
                     ELSE <<>>)
        /\ market_data' =
             <<[symbol |-> symbol, info |-> info, stock_hist |-> hist],
               [symbol |-> PeerCaptain(symbol),
                info |-> c.info, stock_hist |-> c.stock_hist]>>
        /\ thesis_data' = th
    /\ pc' = "valuation"
    /\ UNCHANGED <<events_map, critical_listed, cur, holding_actions, result,
                   rerun, holdings_risk, exposure, risk_output, row_no, news,
                   item_no, stock_events, seen_headlines, event_data, run, first,
                   engineVars>>

\* the sectors of the table, in the order of their first row
RECURSIVE SectorsOf(_)
SectorsOf(rows) ==
    IF rows = <<>> THEN <<>>
    ELSE LET before == SectorsOf(SubSeq(rows, 1, Len(rows) - 1))
             sector == SectorOrUnknown(rows[Len(rows)].symbol)
         IN  IF \E k \in 1..Len(before) : before[k] = sector THEN before
             ELSE Append(before, sector)

\* run_valuation_engine: the benchmarks of every sector, then every row
RunValuation ==
    /\ pc = "valuation"
    /\ LET sectors == SectorsOf(df)
           cache == [k \in 1..Len(sectors) |->
                       SectorBenchmarks(sectors[k],
                           [c \in 1..CaptainCount(sectors[k]) |->
                               InfoOf(market_data,
                                      SECTOR_CAPTAINS(sectors[k])[c])])]
       IN  /\ sector_benchmarks_cache' = cache
           /\ valuation_output' =
                [k \in 1..Len(df) |->
                    ValuationOutput(df[k].symbol, df[k].instrument_type,
                                    InfoOf(market_data, df[k].symbol), cache)]
    /\ pc' = "risk"
    /\ UNCHANGED <<df, events_map, critical_listed, cur, holding_actions, result,
                   rerun, riskVars, eventVars, financial_data,
                   deterioration_count, opportunity_output>>

\* the accumulators after the rows of the table
RECURSIVE ExposureOf(_, _)
ExposureOf(rows, recs) ==
    IF rows = <<>> THEN NoExposure
    ELSE Accumulate(ExposureOf(SubSeq(rows, 1, Len(rows) - 1), recs),
                    recs[Len(rows)], rows[Len(rows)].weight_pct)

\* run_risk_engine: every row, then the concentration checks
RunRisk ==
    /\ pc = "risk"
    /\ LET recs == [k \in 1..Len(df) |->
                      HoldingRisk(df[k].symbol, df[k].instrument_type,
                                  df[k].weight_pct,
                                  InfoOf(market_data, df[k].symbol),
                                  HistOf(market_data, df[k].symbol))]
       IN  /\ holdings_risk' = recs
           /\ exposure' = ExposureOf(df, recs)
           /\ risk_output' = RiskOutput(df, ExposureOf(df, recs))
    /\ pc' = "opportunity"
    /\ UNCHANGED <<df, events_map, critical_listed, cur, holding_actions, result,
                   rerun, market_data, row_no, eventVars, engineVars>>

\* thesis_data.get(symbol, {}): the table has a thesis record for its first row
ThesisOf(k) == IF k = 1 THEN thesis_data ELSE <<>>

\* run_opportunity_cost_engine: every equity row
RunOpportunity ==
    /\ pc = "opportunity"
    /\ LET equity == {k \in 1..Len(df) : df[k].instrument_type = "Equity"}
           out == [k \in 1..Len(df) |->
                     OpportunityOutput(df[k].symbol, df, market_data, ThesisOf(k),
                                       <<valuation_output[k]>>,
                                       RiskRecordOf(holdings_risk, df[k].symbol))]
       IN  opportunity_output' =
             SelectSeq(out, LAMBDA r :
                 \E k \in equity : df[k].symbol = r.symbol)
    /\ pc' = "index"
    /\ UNCHANGED <<df, events_map, critical_listed, cur, holding_actions, result,
                   rerun, riskVars, eventVars, financial_data,
                   deterioration_count, sector_benchmarks_cache,
                   valuation_output>>

\* the evaluation loop reads the next row and the records the engines made
ComposedRow ==
    /\ pc = "eval"
    /\ row_no < Len(df)
    /\ LET k == row_no + 1
       IN  EvaluateRow(Input(df[k].symbol, df[k].instrument_type, ThesisOf(k),
                             <<valuation_output[k]>>,
                             OpportunityRecordOf(opportunity_output, df[k].symbol),
                             RiskRecordOf(holdings_risk, df[k].symbol)))
    /\ row_no' = row_no + 1
    /\ UNCHANGED <<pc, df, events_map, critical_listed, result, rerun,
                   market_data, holdings_risk, exposure, risk_output, eventVars,
                   engineVars>>

InitCompose ==
    /\ pc = "load"
    /\ thesis_data = <<>>
    /\ Fresh

NextCompose ==
    \/ LoadTable
    \/ RunValuation
    \/ RunRisk
    \/ RunOpportunity
    \/ IndexEvent({SymbolNames[1]})
    \/ EndIndex
    \/ ComposedRow
    \/ PipelinePrioritize

SpecCompose == InitCompose /\ [][NextCompose]_vars

-----------------------------------------------------------------------------
(* A table that holds a sector captain, through the composed engines *)

\* the captain of the FMCG roster that the table holds, as the table names it
HeldCaptain == "HINDUNILVR"

\* fetch_market_data keys what it fetched for a ticker by symbol_map[api_sym]:
\* a held symbol X and the roster symbol X.NS map to the same ticker, and the
\* one that the iteration over a set reached last is the key
KeysOf(symbol) == {symbol, ApiTicker(symbol)}

RosterWeights == {500, 900}

RosterHists ==
    {<<>>,
     <<[beta |-> 100, vol |-> 20, rows |-> 250, above_ma_200 |-> FALSE,
        above_ma_50 |-> FALSE, ma_50_above_ma_200 |-> FALSE]>>}

\* the table of two equity holdings, the second a captain of the sector of
\* the first, and the market data fetched for them
LoadHeldCaptain ==
    /\ pc = "fetch"
    /\ \E key1 \in KeysOf(SymbolNames[1]), key2 \in KeysOf(HeldCaptain),
          w \in RosterWeights, info \in ComposeInfos, hist \in RosterHists,
          th \in ComposeTheses, c \in CaptainData :
        /\ df' = <<[symbol |-> SymbolNames[1],
                    instrument_type |-> classify_instrument(SymbolNames[1]),
                    weight_pct |-> w],
                   [symbol |-> HeldCaptain,
                    instrument_type |-> classify_instrument(HeldCaptain),
                    weight_pct |-> 1000 - w]>>
        /\ market_data' =
             <<[symbol |-> key1, info |-> info, stock_hist |-> hist],
               [symbol |-> key2, info |-> c.info, stock_hist |-> c.stock_hist]>>
        /\ thesis_data' = th
    /\ pc' = "valuation"
    /\ UNCHANGED <<events_map, critical_listed, cur, holding_actions, result,
                   rerun, holdings_risk, exposure, risk_output, row_no, news,
                   item_no, stock_events, seen_headlines, event_data, run, first,
                   engineVars>>

InitRoster ==
    /\ pc = "fetch"
    /\ thesis_data = <<>>
    /\ Fresh

NextRoster ==
    \/ LoadHeldCaptain
    \/ RunValuation
    \/ RunRisk
    \/ RunOpportunity
    \/ IndexEvent({SymbolNames[1]})
    \/ EndIndex
    \/ ComposedRow
    \/ PipelinePrioritize

SpecRoster == InitRoster /\ [][NextRoster]_vars

-----------------------------------------------------------------------------
(* Properties of run_decision_engine *)

\* the verdicts stored for a symbol
VerdictsOf(sym) ==
    {k \in 1..Len(holding_actions) : holding_actions[k].symbol = sym}

HasVerdict(sym, a, u) ==
    \E k \in VerdictsOf(sym) :
        holding_actions[k].action = a /\ holding_actions[k].urgency = u

CurIsEquity == cur # NoRow /\ cur.symbol # "" /\ cur.instrument_type = "Equity"

\* the action stored for the row last evaluated
CurAction == holding_actions[CHOOSE k \in VerdictsOf(cur.symbol) : TRUE].action

\* the score the ranking is stated in: base score times multiplier, in units
PriorityScore(e) ==
    LET base == CASE e.action = "EXIT" -> 100
                  [] e.action = "REPLACE" -> 80
                  [] e.action = "TRIM" -> 60
                  [] e.action = "WATCH" -> 10
                  [] OTHER -> 0
        mult == CASE e.urgency = "Critical" -> 20
                  [] e.urgency = "High" -> 15
                  [] e.urgency = "Medium" -> 10
                  [] OTHER -> 5
    IN  (base * mult) \div 10

Returned == pc \in {"done", "rerun"}

\* C1: an equity holding whose thesis status is "Broken" gets the verdict
\* EXIT with urgency Critical, whatever its valuation, opportunity-cost and
\* risk records and whatever event is kept for it.
C1_BrokenThesisExits ==
    (CurIsEquity /\ cur.thesis = <<[status |-> "Broken"]>>)
        => HasVerdict(cur.symbol, "EXIT", "Critical")

\* a Broken holding with no event, whose risk tag alone would have trimmed it
C1_Witness ==
    /\ CurIsEquity
    /\ cur.thesis = <<[status |-> "Broken"]>>
    /\ events_map[cur.symbol] = NoEvent
    /\ cur.risk = <<[risk_tag |-> "Critical (Liquidity)"]>>
    /\ HasVerdict(cur.symbol, "EXIT", "Critical")

\* C2: a holding whose instrument type is not "Equity" gets the verdict HOLD
\* whatever the engines and the events say about it, and it is never an entry
\* of the returned portfolio action list.
C2_NonEquityHolds ==
    (cur # NoRow /\ cur.symbol # "" /\ cur.instrument_type # "Equity")
        => /\ \A k \in VerdictsOf(cur.symbol) : holding_actions[k].action = "HOLD"
           /\ VerdictsOf(cur.symbol) # {}
           /\ Returned =>
                \A k \in 1..Len(result.actions) :
                    result.actions[k].symbol # cur.symbol

\* restricted equity with a broken thesis and a governance event, held
C2_Witness ==
    /\ Returned
    /\ cur # NoRow
    /\ cur.instrument_type = "Restricted Equity"
    /\ cur.thesis = <<[status |-> "Broken"]>>
    /\ events_map[cur.symbol].impact = "Governance Risk"
    /\ HasVerdict(cur.symbol, "HOLD", "Low")

\* the rows of the table that carry the symbol
RowsOf(sym) == {i \in 1..Len(df) : df[i].symbol = sym}

WellFormedVerdicts ==
    \A k \in 1..Len(holding_actions) :
        /\ holding_actions[k].action \in Actions
        /\ holding_actions[k].urgency \in Urgencies

\* C3 as stated: after the engine returns, every row of the table has exactly
\* one verdict, no row is skipped, with action and urgency in their sets.
C3_EveryRowHasVerdict ==
    Returned =>
        /\ Len(holding_actions) = Len(df)
        /\ \A i \in 1..Len(df) : Cardinality(VerdictsOf(df[i].symbol)) = 1
        /\ WellFormedVerdicts

\* C3: after the engine returns, every row whose symbol is not empty has
\* exactly one verdict and every verdict belongs to such a row, with action in
\* {EXIT, REPLACE, TRIM, WATCH, HOLD} and urgency in {Critical, High, Medium,
\* Low}; a row whose symbol is empty is skipped and has no verdict.
C3_EveryNamedRowHasVerdict ==
    Returned =>
        /\ \A i \in 1..Len(df) :
              IF df[i].symbol = "" THEN VerdictsOf("") = {}
              ELSE Cardinality(VerdictsOf(df[i].symbol)) = 1
        /\ \A k \in 1..Len(holding_actions) :
              RowsOf(holding_actions[k].symbol) # {}
        /\ WellFormedVerdicts

\* a returned table of three rows: a gold bond, a row without symbol, an equity
C3_Witness ==
    /\ pc = "done"
    /\ Len(df) = 3
    /\ \E i, j \in 1..3 :
          /\ df[i].symbol = ""
          /\ df[j].instrument_type = "SGB" /\ df[j].symbol # ""
    /\ Len(holding_actions) = 2

\* C4 as stated: an equity holding for which the event list holds at least one
\* Governance Risk or Regulatory Hit event gets EXIT with urgency Critical,
\* whatever other events for the symbol come before or after it.
C4_CriticalEventExits ==
    (CurIsEquity /\ cur.symbol \in critical_listed)
        => HasVerdict(cur.symbol, "EXIT", "Critical")

\* C5: the returned portfolio action list has at most MAX_PORTFOLIO_ACTIONS
\* entries and its scores never increase from one entry to the next.
C5_ListBoundedAndSorted ==
    Returned =>
        /\ Len(result.actions) <= 10
        /\ \A k \in 1..(Len(result.actions) - 1) :
              PriorityScore(result.actions[k]) >=
                  PriorityScore(result.actions[k + 1])

\* more verdicts qualify than the list may hold, and their scores differ
C5_Witness ==
    /\ pc = "done"
    /\ Len(SelectSeq(holding_actions, Surfaced)) > 10
    /\ Len(result.actions) = 10
    /\ PriorityScore(result.actions[1]) > PriorityScore(result.actions[10])

\* the verdicts that qualify for the list, and those of them that are listed
Qualifying ==
    {k \in 1..Len(holding_actions) :
        holding_actions[k].action \in {"EXIT", "REPLACE", "TRIM"}}

ListedVerdicts ==
    {k \in Qualifying :
        \E j \in 1..Len(result.actions) :
            result.actions[j].symbol = holding_actions[k].symbol}

\* C6: the list is the top MAX_PORTFOLIO_ACTIONS, by score, of the EXIT,
\* REPLACE and TRIM verdicts: no entry is a HOLD or a WATCH, every entry is
\* the verdict of its symbol with the same action and urgency, no symbol is
\* listed twice, and no omitted qualifying verdict scores strictly higher
\* than a listed one.
C6_ListIsTopScored ==
    Returned =>
        /\ \A j \in 1..Len(result.actions) :
              /\ result.actions[j].action \in {"EXIT", "REPLACE", "TRIM"}
              /\ HasVerdict(result.actions[j].symbol, result.actions[j].action,
                            result.actions[j].urgency)
              /\ \A i \in 1..Len(result.actions) :
                    result.actions[i].symbol = result.actions[j].symbol => i = j
        /\ Len(result.actions) =
              IF Cardinality(Qualifying) < 10 THEN Cardinality(Qualifying) ELSE 10
        /\ \A k \in Qualifying \ ListedVerdicts :
              \A j \in 1..Len(result.actions) :
                  PriorityScore(holding_actions[k]) <=
                      PriorityScore(result.actions[j])

\* a qualifying verdict is cut off below a listed one of a higher score, in a
\* table that also holds a verdict that does not qualify
C6_Witness ==
    /\ pc = "done"
    /\ Len(result.actions) = 10
    /\ \E k \in Qualifying \ ListedVerdicts :
          PriorityScore(holding_actions[k]) < PriorityScore(result.actions[10])
    /\ \E k \in 1..Len(holding_actions) : holding_actions[k].action = "WATCH"

\* C7 as stated: the bias is "De-Risk" when the list holds an EXIT and
\* "Optimize" otherwise; when the list is empty the bias is "Hold" and
\* do_nothing is true.
C7_BiasFollowsList ==
    pc = "done" =>
        IF Len(result.actions) = 0
        THEN result.net_action_bias = "Hold" /\ result.do_nothing = TRUE
        ELSE /\ result.do_nothing = FALSE
             /\ result.net_action_bias =
                  IF \E k \in 1..Len(result.actions) :
                        result.actions[k].action = "EXIT"
                  THEN "De-Risk" ELSE "Optimize"

\* the order of the actions by severity
Severity(a) ==
    CASE a = "HOLD" -> 0
      [] a = "WATCH" -> 1
      [] a = "TRIM" -> 2
      [] a = "REPLACE" -> 3
      [] a = "EXIT" -> 4

\* C8: with every other input fixed, a higher capital_drag_score never gives
\* an equity holding a less severe action (HOLD < WATCH < TRIM < REPLACE <
\* EXIT), except that an EXIT may become a REPLACE when the holding has a
\* replacement candidate.
C8_DragNeverSoftens ==
    (pc = "rerun" /\ CurIsEquity)
        => \/ Severity(rerun.action) >= Severity(CurAction)
           \/ /\ CurAction = "EXIT"
              /\ rerun.action = "REPLACE"
              /\ Candidates(cur) # <<>>

\* the drag score crosses the dead-capital threshold and a watched holding,
\* which has no replacement candidate, is exited
C8_Witness ==
    /\ pc = "rerun"
    /\ CurIsEquity
    /\ DragScore(cur) < 850
    /\ rerun.drag >= 850
    /\ CurAction = "WATCH"
    /\ rerun.action = "EXIT"

\* C9 as stated: two runs of the pipeline on the same holdings and the same
\* market data return the same verdicts (action, reason, urgency) and the
\* same portfolio action list, also when a headline matches several event
\* categories at once.
C9_RunsAgree ==
    (run = 2 /\ pc = "done")
        => /\ holding_actions = first.holding_actions
           /\ result = first.result

\* the rows of the table that are small-cap equity above 7% of the portfolio
HeavySmallCaps ==
    {i \in 1..Len(df) :
        /\ i <= Len(market_data)
        /\ df[i].instrument_type = "Equity"
        /\ MarketCap(market_data[i].info) > 0
        /\ MarketCap(market_data[i].info) <= 5000
        /\ df[i].weight_pct > 70}

\* the thesis status the evaluation loop read for a symbol
ThesisRead(sym) ==
    holding_actions[CHOOSE k \in VerdictsOf(sym) : TRUE].meta[1].thesis

\* C10: through the risk engine and then the decision engine, every small-cap
\* equity holding above 7% of the portfolio is tagged "Critical (Liquidity)"
\* and, when its thesis is not Broken and the event list holds no Governance
\* Risk or Regulatory Hit event for it, gets TRIM with urgency High, whatever
\* its volatility, beta, drag score, valuation stress and momentum.
C10_HeavySmallCapTrimmed ==
    \A i \in HeavySmallCaps :
        /\ RiskRecordOf(holdings_risk, df[i].symbol) # <<>>
        /\ RiskRecordOf(holdings_risk, df[i].symbol)[1].risk_tag =
              "Critical (Liquidity)"
        /\ (/\ pc \in {"eval", "done"}
            /\ i <= row_no
            /\ ThesisRead(df[i].symbol) # "Broken"
            /\ df[i].symbol \notin critical_listed)
              => HasVerdict(df[i].symbol, "TRIM", "High")

\* a volatile, high-beta small cap at 7.1% with an intact thesis, a full drag
\* score, stretched valuation and weak momentum is trimmed, after a minor event
C10_Witness ==
    /\ pc = "done"
    /\ 1 \in HeavySmallCaps
    /\ df[1].weight_pct = 71
    /\ market_data[1].stock_hist = <<[beta |-> 151, vol |-> 41]>>
    /\ events_map[df[1].symbol].impact = "Earnings Miss"
    /\ \E k \in VerdictsOf(df[1].symbol) :
          /\ holding_actions[k].meta[1] = [momentum |-> 39, thesis |-> "Intact"]
          /\ holding_actions[k].action = "TRIM"
          /\ holding_actions[k].urgency = "High"
    /\ Len(df) = 2

-----------------------------------------------------------------------------
(* Properties of run_thesis_engine followed by run_decision_engine *)

\* the statements the ticker of the holding gave
Statements == financial_data[1]

\* the income statement shows three periods of revenue, each below the one
\* before it, and operating income of 1.2 times the interest expense
DecliningAndThinlyCovered ==
    /\ financial_data # <<>>
    /\ Statements.financials # <<>>
    /\ LET f == Statements.financials[1]
       IN  /\ Len(f.revenue) >= 3
           /\ f.revenue[1] < f.revenue[2]
           /\ f.revenue[2] < f.revenue[3]
           /\ f.operating_income # <<>>
           /\ f.interest_expense # <<>>
           /\ 10 * f.operating_income[1] = 12 * Abs(f.interest_expense[1])
           /\ f.interest_expense[1] # 0

\* the thesis engine counted at least 2.5, said Broken, and the decision
\* engine stored EXIT with urgency Critical
BrokenAndExited ==
    /\ deterioration_count >= 5
    /\ ThesisStatus([thesis |-> thesis_data]) = "Broken"
    /\ HasVerdict(df[1].symbol, "EXIT", "Critical")

-----------------------------------------------------------------------------
(* Properties of run_events_engine followed by run_decision_engine *)

\* the symbols whose news list the events engine found empty or absent
QuietSymbols ==
    {market_data[k].symbol :
        k \in {i \in 1..Len(market_data) : market_data[i].news \in NoNews}}

\* C12: a symbol whose news list is empty or absent has no event in what the
\* events engine returns, so no event is kept for it, and its verdict is the
\* one the rules below the event rule give: it never carries the reason
\* CRITICAL EVENT.
C12_NoNewsNoEventRule ==
    \A q \in QuietSymbols :
        /\ \A k \in 1..Len(event_data) : event_data[k].symbol # q
        /\ events_map[q] = NoEvent
        /\ q \notin critical_listed
        /\ \A k \in VerdictsOf(q) :
              /\ holding_actions[k].reason[1] # "CRITICAL EVENT"
              /\ cur.symbol = q
              /\ holding_actions[k].action = Decide(cur, NoEvent).action
              /\ holding_actions[k].urgency = Decide(cur, NoEvent).urgency
              /\ holding_actions[k].reason = Decide(cur, NoEvent).reason

\* the other holding of the table was exited on a governance story while the
\* holding without news, with no record against it, is held
C12_Witness ==
    /\ pc = "done"
    /\ SymbolNames[2] \in QuietSymbols
    /\ events_map[SymbolNames[1]].impact = "Governance Risk"
    /\ HasVerdict(SymbolNames[1], "EXIT", "Critical")
    /\ cur.thesis = <<>>
    /\ HasVerdict(SymbolNames[2], "HOLD", "Low")
    /\ Len(result.actions) = 1

-----------------------------------------------------------------------------
(* Properties of run_valuation_engine *)

\* the info read for the holding, and the metric its sector is valued on
HoldingInfo == market_data[2].info

PrimaryMetric ==
    IF SectorOrUnknown(df[1].symbol) = "Financials"
    THEN InfoGet(HoldingInfo, "priceToBook")
    ELSE InfoGet(HoldingInfo, "trailingPE")

\* the benchmark of the sector: the median over the captains that report a
\* positive value, else the static value
SectorBenchmark ==
    IF SectorOrUnknown(df[1].symbol) = "Financials"
    THEN sector_benchmarks_cache[1].pb
    ELSE sector_benchmarks_cache[1].pe

\* ratio = metric / benchmark compared with a / b, by cross multiplication
RatioBelow(a, b) ==
    b * PrimaryMetric[1] * SectorBenchmark.den < a * SectorBenchmark.num
RatioAbove(a, b) ==
    b * PrimaryMetric[1] * SectorBenchmark.den > a * SectorBenchmark.num

GrowthDefended ==
    /\ InfoGet(HoldingInfo, "pegRatio") # <<>>
    /\ InfoGet(HoldingInfo, "pegRatio")[1] > 0
    /\ InfoGet(HoldingInfo, "pegRatio")[1] < 15

Valued(status, stress_score) ==
    /\ valuation_output[1].valuation_status = status
    /\ valuation_output[1].stress_score = stress_score

\* C13: an equity holding whose primary metric is present is classed by
\* ratio = metric / sector benchmark: below 0.75 Undervalued (30); from 0.75
\* to 1.25 Fair Value (50); above 1.25 with 0 < PEG < 1.5 Justified Premium
\* (60) whatever the ratio; else above 2.5 Highly Stretched (90), above 1.5
\* Overvalued (75), and Premium (65) up to 1.5.
C13_ValuationTiers ==
    (pc = "valued" /\ df[1].instrument_type = "Equity" /\ PrimaryMetric # <<>>)
        => /\ SectorBenchmark.num > 0
           /\ RatioBelow(3, 4) => Valued("Undervalued", 30)
           /\ (~RatioBelow(3, 4) /\ ~RatioAbove(5, 4)) => Valued("Fair Value", 50)
           /\ (RatioAbove(5, 4) /\ GrowthDefended)
                => Valued("Justified Premium", 60)
           /\ (RatioAbove(5, 2) /\ ~GrowthDefended)
                => Valued("Highly Stretched", 90)
           /\ (RatioAbove(3, 2) /\ ~RatioAbove(5, 2) /\ ~GrowthDefended)
                => Valued("Overvalued", 75)
           /\ (RatioAbove(5, 4) /\ ~RatioAbove(3, 2) /\ ~GrowthDefended)
                => Valued("Premium", 65)

\* P/E 40 against a captain median of 20 (captains at 15 and 25) with PEG 0.9
C13_Witness ==
    /\ pc = "valued"
    /\ df[1].symbol = SymbolNames[1]
    /\ sector_benchmarks_cache[1].pe = [num |-> 400, den |-> 2]
    /\ sector_benchmarks_cache[1].source_pe = "Live Sector Captains"
    /\ InfoGet(HoldingInfo, "trailingPE") = <<400>>
    /\ InfoGet(HoldingInfo, "pegRatio") = <<9>>
    /\ Valued("Justified Premium", 60)

-----------------------------------------------------------------------------
(* Properties of run_decision_engine on missing records *)

\* the row last evaluated is an equity holding for which no engine holds a
\* record and no event is kept
CurHasNoRecord ==
    /\ CurIsEquity
    /\ cur.thesis = <<>>
    /\ cur.val = <<>>
    /\ cur.opp = <<>>
    /\ cur.risk = <<>>
    /\ EventFor(events_map, cur.symbol) = NoEvent

\* C14: an equity holding without any record is evaluated with thesis Unknown
\* and momentum 50 and gets HOLD with urgency Low; whatever rows lack records,
\* every row with a symbol has its one verdict, and the engine returns a list
\* that does not name the holding.
C14_MissingRecordsHold ==
    /\ CurHasNoRecord =>
         \A k \in VerdictsOf(cur.symbol) :
             /\ holding_actions[k].action = "HOLD"
             /\ holding_actions[k].urgency = "Low"
             /\ holding_actions[k].meta = <<[momentum |-> 50, thesis |-> "Unknown"]>>
    /\ \A i \in 1..Len(df) :
         df[i].symbol # "" => Cardinality(VerdictsOf(df[i].symbol)) = 1
    /\ (Returned /\ CurHasNoRecord) =>
         \A k \in 1..Len(result.actions) : result.actions[k].symbol # cur.symbol

\* a returned table of three rows: the first and the last without records,
\* both held, and between them a holding in a liquidity trap, trimmed
C14_Witness ==
    /\ pc = "done"
    /\ Len(df) = 3
    /\ CurHasNoRecord
    /\ cur.symbol = SymbolNames[3]
    /\ HasVerdict(SymbolNames[1], "HOLD", "Low")
    /\ holding_actions[1].meta = <<[momentum |-> 50, thesis |-> "Unknown"]>>
    /\ HasVerdict(SymbolNames[2], "TRIM", "High")
    /\ HasVerdict(SymbolNames[3], "HOLD", "Low")
    /\ Len(result.actions) = 1

-----------------------------------------------------------------------------
(* Properties of the composed engines *)

\* the opportunity-cost record of the first row, the holding
HoldingOpportunity == OpportunityRecordOf(opportunity_output, df[1].symbol)

\* C15: in the composed pipeline no holding is given REPLACE: an equity
\* holding whose thesis is not Broken has a capital drag score of at most 66,
\* one whose thesis is Broken has 100 and is exited, so no verdict and no
\* entry of the returned list says REPLACE.
C15_NeverReplace ==
    /\ \A k \in 1..Len(opportunity_output) :
         /\ opportunity_output[k].symbol = df[1].symbol
         /\ IF ThesisStatus([thesis |-> thesis_data]) = "Broken"
            THEN opportunity_output[k].capital_drag_score = 1000
            ELSE opportunity_output[k].capital_drag_score <= 660
    /\ \A k \in 1..Len(holding_actions) :
         /\ holding_actions[k].action # "REPLACE"
         /\ (ThesisStatus([thesis |-> thesis_data]) = "Broken"
             /\ holding_actions[k].symbol = df[1].symbol)
              => holding_actions[k].action = "EXIT"
    /\ \A k \in 1..Len(result.actions) : result.actions[k].action # "REPLACE"

\* the worst holding that is not Broken: Weakening, valued at 2.5 times its
\* sector, the whole table, in a down trend, with a captain that passes as a
\* replacement; its drag is 66.0 and it is exited on valuation
C15_Witness ==
    /\ pc = "done"
    /\ thesis_data = <<[status |-> "Weakening"]>>
    /\ valuation_output[1].stress_score = 90
    /\ HoldingOpportunity # <<>>
    /\ HoldingOpportunity[1].capital_drag_score = 660
    /\ HoldingOpportunity[1].momentum_health = 25
    /\ HoldingOpportunity[1].bucket = "Monitor"
    /\ HoldingOpportunity[1].replacement_candidates # <<>>
    /\ events_map[SymbolNames[1]] = NoEvent
    /\ HasVerdict(df[1].symbol, "EXIT", "High")

-----------------------------------------------------------------------------
(* Properties of the lower rules of the decision hierarchy *)

\* the event kept for the holding is none, or not a critical one
NoCriticalEvent ==
    EventFor(events_map, cur.symbol).impact \notin CriticalImpacts

\* the holding has a verdict with this action, urgency and reason
HasVerdictFor(a, u, r) ==
    \E k \in VerdictsOf(cur.symbol) :
        /\ holding_actions[k].action = a
        /\ holding_actions[k].urgency = u
        /\ holding_actions[k].reason = r

\* the equity holding passed the event and the thesis rule
PastVeto ==
    /\ CurIsEquity
    /\ NoCriticalEvent
    /\ ThesisStatus(cur) # "Broken"

\* ... and the risk rules
PastRisk ==
    /\ PastVeto
    /\ RiskTag(cur) \notin {"Critical (Liquidity)", "Critical (Volatility)"}

\* C16: an equity holding with no critical event, a thesis that is not Broken
\* and no Critical risk tag, whose capital drag is at least 85, gets REPLACE
\* with urgency High and a reason naming the first replacement candidate when
\* its opportunity-cost record has a candidate, and EXIT with urgency Medium
\* when it has none, whatever its valuation stress, momentum and thesis.
C16_DeadCapital ==
    (PastRisk /\ DragScore(cur) >= 850)
        => IF Candidates(cur) # <<>>
           THEN HasVerdictFor("REPLACE", "High",
                              <<"Dead Capital: Switch to", Candidates(cur)[1]>>)
           ELSE HasVerdictFor("EXIT", "Medium", <<"Dead Capital">>)

\* a Weakening holding in a down trend, valued at the highest stress, with a
\* drag of exactly 85 and two candidates, is replaced by the first of them
C16_Witness ==
    /\ PastRisk
    /\ cur.thesis = <<[status |-> "Weakening"]>>
    /\ cur.val = <<[stress_score |-> 90]>>
    /\ cur.opp = <<[capital_drag_score |-> 850, momentum_health |-> 39,
                    replacement_candidates |-> <<"TCS.NS", "INFY.NS">>]>>
    /\ HasVerdictFor("REPLACE", "High", <<"Dead Capital: Switch to", "TCS.NS">>)

\* C17: an equity holding with no critical event, a thesis that is not Broken
\* and the risk tag "Critical (Volatility)" gets TRIM with urgency Medium when
\* its momentum is above 60 and EXIT with urgency High otherwise, a momentum
\* of exactly 60 included, whatever its drag score and valuation stress.
C17_CriticalVolatility ==
    (PastVeto /\ RiskTag(cur) = "Critical (Volatility)")
        => IF MomScore(cur) > 60
           THEN HasVerdictFor("TRIM", "Medium", <<"Risk Control">>)
           ELSE HasVerdictFor("EXIT", "High", <<"Volatility Risk">>)

\* a momentum of exactly 60 with a full drag score, a replacement candidate
\* and the highest valuation stress: exited on volatility
C17_Witness ==
    /\ PastVeto
    /\ RiskTag(cur) = "Critical (Volatility)"
    /\ cur.val = <<[stress_score |-> 90]>>
    /\ cur.opp = <<[capital_drag_score |-> 1000, momentum_health |-> 60,
                    replacement_candidates |-> <<"TCS.NS">>]>>
    /\ HasVerdictFor("EXIT", "High", <<"Volatility Risk">>)

\* C19: an equity holding matched by none of the higher rules (no critical
\* event, thesis not Broken, no Critical risk tag, drag below 85) whose
\* valuation stress is at least 90 gets TRIM with urgency Medium when its
\* momentum is above 75 and EXIT with urgency High, for the valuation,
\* otherwise; the falling-knife rule and the WATCH rule do not come first.
C19_ExtremeValuation ==
    (PastRisk /\ DragScore(cur) < 850 /\ ValStress(cur) >= 90)
        => IF MomScore(cur) > 75
           THEN HasVerdictFor("TRIM", "Medium", <<"Profit Booking">>)
           ELSE HasVerdictFor("EXIT", "High", <<"Valuation Bubble">>)

\* an Intact holding at stress 90 with momentum 76, which the WATCH rule
\* would match as well, is trimmed
C19_Witness ==
    /\ PastRisk
    /\ cur.thesis = <<[status |-> "Intact"]>>
    /\ cur.val = <<[stress_score |-> 90]>>
    /\ cur.opp # <<>>
    /\ DragScore(cur) = 849
    /\ MomScore(cur) = 76
    /\ HasVerdictFor("TRIM", "Medium", <<"Profit Booking">>)

\* C20: an equity holding matched by none of the rules above (no critical
\* event, thesis not Broken, no Critical risk tag, drag below 85, valuation
\* stress below 90) gets EXIT with urgency High if its thesis is Weakening
\* and its momentum below 40; otherwise WATCH with urgency Low if its
\* valuation stress is at least 75 and its thesis Intact; otherwise HOLD with
\* urgency Low.
C20_KnifeWatchHold ==
    (PastRisk /\ DragScore(cur) < 850 /\ ValStress(cur) < 90)
        => IF ThesisStatus(cur) = "Weakening" /\ MomScore(cur) < 40
           THEN HasVerdictFor("EXIT", "High", <<"Falling Knife">>)
           ELSE IF ValStress(cur) >= 75 /\ ThesisStatus(cur) = "Intact"
           THEN HasVerdictFor("WATCH", "Low", <<"Monitor">>)
           ELSE HasVerdictFor("HOLD", "Low",
                              <<"Thesis intact, metrics within tolerance.">>)

\* a Weakening holding at stress 89 with momentum exactly 40 is held: neither
\* a falling knife nor, its thesis not being Intact, watched
C20_Witness ==
    /\ PastRisk
    /\ cur.thesis = <<[status |-> "Weakening"]>>
    /\ cur.val = <<[stress_score |-> 89]>>
    /\ cur.opp # <<>>
    /\ DragScore(cur) = 849
    /\ MomScore(cur) = 40
    /\ HasVerdictFor("HOLD", "Low", <<"Thesis intact, metrics within tolerance.">>)

-----------------------------------------------------------------------------
(* Properties of the risk tags in the composed pipeline *)

\* the tags run_risk_engine gives
EmittedRiskTags ==
    {"Low", "Critical (Liquidity)", "High Volatility", "Aggressive Exposure",
     "Moderate (Small Cap)"}

\* the row last evaluated is an equity holding with an annualized volatility
\* above 40% that is not a heavy small cap
CurIsVolatile ==
    /\ CurIsEquity
    /\ cur.risk # <<>>
    /\ cur.risk[1].volatility_annual > 40
    /\ cur.risk[1].risk_tag # "Critical (Liquidity)"

\* the verdict the holding would get with no risk record at all
VerdictWithoutRisk == RowVerdict([cur EXCEPT !.risk = <<>>], events_map)

\* C18: the risk engine gives only the tags Low, "Critical (Liquidity)",
\* "High Volatility", "Aggressive Exposure" and "Moderate (Small Cap)"; so
\* after the risk engine no verdict of the decision engine comes from its
\* "Critical (Volatility)" rule, and a holding with an annualized volatility
\* above 40% is tagged "High Volatility" and gets the verdict it would get
\* without a risk record.
C18_NoCriticalVolatility ==
    /\ \A k \in 1..Len(holdings_risk) :
          holdings_risk[k].risk_tag \in EmittedRiskTags
    /\ \A k \in 1..Len(holding_actions) :
          holding_actions[k].reason \notin {<<"Risk Control">>, <<"Volatility Risk">>}
    /\ CurIsVolatile
         => /\ RiskTag(cur) = "High Volatility"
            /\ \E k \in VerdictsOf(cur.symbol) :
                 /\ holding_actions[k].action = VerdictWithoutRisk.action
                 /\ holding_actions[k].urgency = VerdictWithoutRisk.urgency
                 /\ holding_actions[k].reason = VerdictWithoutRisk.reason

\* a large cap at 41% volatility with an Intact thesis and no other record is
\* tagged "High Volatility" and held
C18_Witness ==
    /\ pc = "eval"
    /\ row_no = 1
    /\ CurIsVolatile
    /\ cur.symbol = df[1].symbol
    /\ cur.thesis = <<[status |-> "Intact"]>>
    /\ cur.val = <<>>
    /\ cur.opp = <<>>
    /\ market_data[1].info = <<[marketCap |-> 20001]>>
    /\ market_data[1].stock_hist = <<[beta |-> 151, vol |-> 41]>>
    /\ df[1].weight_pct = 71
    /\ events_map[df[1].symbol] = NoEvent
    /\ RiskTag(cur) = "High Volatility"
    /\ HasVerdict(cur.symbol, "HOLD", "Low")

-----------------------------------------------------------------------------
(* Properties of the verdicts as pairs of action and urgency *)

\* the urgencies an action is given
UrgenciesOf(a) ==
    CASE a \in {"HOLD", "WATCH"} -> {"Low"}
      [] a = "REPLACE" -> {"High"}
      [] a = "TRIM" -> {"High", "Medium"}
      [] a = "EXIT" -> {"Critical", "High", "Medium"}
      [] OTHER -> {}

\* C21: every verdict pairs action and urgency consistently: HOLD and WATCH
\* have urgency Low, REPLACE has High, TRIM has High or Medium, EXIT has
\* Critical, High or Medium; Critical occurs only with EXIT and no EXIT,
\* REPLACE or TRIM has urgency Low.
C21_ActionUrgencyPairs ==
    \A k \in 1..Len(holding_actions) :
        /\ holding_actions[k].urgency \in UrgenciesOf(holding_actions[k].action)
        /\ holding_actions[k].urgency = "Critical"
              => holding_actions[k].action = "EXIT"
        /\ holding_actions[k].action \in {"EXIT", "REPLACE", "TRIM"}
              => holding_actions[k].urgency # "Low"

\* an Intact holding at stress 75, the one verdict that changes the action
\* and leaves the urgency at its default: WATCH with urgency Low
C21_Witness ==
    /\ CurIsEquity
    /\ cur.thesis = <<[status |-> "Intact"]>>
    /\ cur.val = <<[stress_score |-> 75]>>
    /\ EventFor(events_map, cur.symbol).impact = "Earnings Miss"
    /\ HasVerdict(cur.symbol, "WATCH", "Low")

-----------------------------------------------------------------------------
(* Properties of the truncated list: EXIT against TRIM *)

\* the returned list names the symbol with this action
ListedAs(sym, a) ==
    \E j \in 1..Len(result.actions) :
        result.actions[j].symbol = sym /\ result.actions[j].action = a

ListHasTrim == \E j \in 1..Len(result.actions) : result.actions[j].action = "TRIM"

SomeExitVerdict ==
    \E k \in 1..Len(holding_actions) : holding_actions[k].action = "EXIT"

\* C22: truncation never hides an EXIT behind a TRIM: every EXIT verdict
\* scores at least 100 and every TRIM verdict at most 90, so whenever the
\* returned list contains a TRIM every holding whose verdict is EXIT is in
\* the list, and the bias is then "De-Risk" exactly when some holding's
\* verdict is EXIT.
C22_ExitBeforeTrim ==
    /\ \A k \in 1..Len(holding_actions) :
          /\ holding_actions[k].action = "EXIT"
                => FinalScore(holding_actions[k]) >= 100
          /\ holding_actions[k].action = "TRIM"
                => FinalScore(holding_actions[k]) <= 90
    /\ (pc = "done" /\ ListHasTrim)
          => /\ \A k \in 1..Len(holding_actions) :
                  holding_actions[k].action = "EXIT"
                     => ListedAs(holding_actions[k].symbol, "EXIT")
             /\ (result.net_action_bias = "De-Risk") <=> SomeExitVerdict

\* twelve verdicts qualify for ten places: the dead-capital EXIT of urgency
\* Medium, evaluated after nine TRIMs of urgency High, is listed, and a TRIM
\* is left out
C22_Witness ==
    /\ pc = "done"
    /\ Len(holding_actions) = FillerRows + MaxRows
    /\ \A k \in 1..Len(holding_actions) : Surfaced(holding_actions[k])
    /\ Len(result.actions) = MAX_PORTFOLIO_ACTIONS
    /\ ListHasTrim
    /\ \E k \in 1..Len(holding_actions) :
          /\ k > FillerRows
          /\ holding_actions[k].action = "EXIT"
          /\ holding_actions[k].urgency = "Medium"
          /\ ListedAs(holding_actions[k].symbol, "EXIT")
    /\ \E k \in 1..Len(holding_actions) :
          /\ holding_actions[k].action = "TRIM"
          /\ ~ListedAs(holding_actions[k].symbol, "TRIM")
    /\ result.net_action_bias = "De-Risk"

-----------------------------------------------------------------------------
(* Properties of the final scoring of run_thesis_engine *)

\* the row loop counted the tests of the holding: an equity row whose ticker
\* gave both statements
Counted ==
    /\ df # <<>>
    /\ df[1].instrument_type = "Equity"
    /\ financial_data # <<>>
    /\ fetch_financial_trends(Statements) # <<>>

\* C23 as stated: the final status is Broken when the deterioration score is
\* at least 2.5, Weakening when it is at least 1.0 and below 2.5, and Intact
\* when it is below 1.0; the score is held in halves.
C23_StatusThresholds ==
    Counted =>
        thesis_data[1].status =
            IF deterioration_count >= 5 THEN "Broken"
            ELSE IF deterioration_count >= 2 THEN "Weakening"
            ELSE "Intact"

-----------------------------------------------------------------------------
(* Properties of evaluate_trend *)

\* the trend of a series by the rule of a drop of more than 10% or three
\* periods of decline
ToleratedTrend(series) ==
    IF Len(series) < 2 THEN "Unknown"
    ELSE IF \/ 10 * series[1] < 9 * series[2]
            \/ (Len(series) >= 3 /\ series[1] < series[2] /\ series[2] < series[3])
    THEN "Deteriorating"
    ELSE IF series[1] > series[2] THEN "Improving"
    ELSE "Stable"

\* C24 as stated: the trend of a series of several periods is "Deteriorating"
\* only if the latest value dropped by more than 10% from the prior period or
\* three consecutive periods decline, "Improving" if the latest value is above
\* the prior one, and "Stable" otherwise; the revenue test of the engine
\* records its driver exactly for a "Deteriorating" revenue series.
C24_TrendRule ==
    Counted =>
        LET revenue == Statements.financials[1].revenue
        IN  /\ evaluate_trend(revenue) = ToleratedTrend(revenue)
            /\ (\E k \in 1..Len(thesis_data[1].drivers) :
                    thesis_data[1].drivers[k] = "Revenue growth weakening")
                 <=> ToleratedTrend(revenue) = "Deteriorating"

-----------------------------------------------------------------------------
(* Properties of the capital drag score and its bucket *)

\* C25 as stated: for every equity holding the capital_drag_score lies in
\* [0, 100], the bucket is Replace exactly for a drag of 80 or more, Monitor
\* for a drag from 50 up to 80 and Defend otherwise, and a Broken thesis
\* gives a drag of exactly 100 and the bucket Replace.
C25_DragRangeAndBuckets ==
    \A k \in 1..Len(opportunity_output) :
        LET r == opportunity_output[k]
        IN  /\ r.capital_drag_score >= 0
            /\ r.capital_drag_score <= 1000
            /\ r.bucket =
                  IF r.capital_drag_score >= 800 THEN "Replace"
                  ELSE IF r.capital_drag_score >= 500 THEN "Monitor"
                  ELSE "Defend"
            /\ ThesisStatus([thesis |-> thesis_data]) = "Broken"
                  => r.capital_drag_score = 1000 /\ r.bucket = "Replace"

-----------------------------------------------------------------------------
(* Properties of the replacement candidates *)

\* C26 as stated: no replacement candidate surfaced for a holding is an
\* instrument the table already holds, a roster symbol and a holdings symbol
\* of the same stock, with or without the ".NS" suffix, being the same
\* instrument.
C26_NoHeldCandidate ==
    \A k \in 1..Len(opportunity_output) :
        \A j \in 1..Len(opportunity_output[k].replacement_candidates) :
            \A i \in 1..Len(df) :
                ApiTicker(opportunity_output[k].replacement_candidates[j])
                    # ApiTicker(df[i].symbol)

\* the three gates of a switch from holding h to candidate c
QualityGate(h, c) ==
    \/ 10 * GetOr(InfoOf(market_data, c), "returnOnEquity", 10)
          > 11 * GetOr(InfoOf(market_data, h), "returnOnEquity", 10)
    \/ /\ get_momentum_score(HistOf(market_data, h)) < 30
       /\ get_momentum_score(HistOf(market_data, c)) > 60

ValueGate(h, c, is_emergency) ==
    \/ GetOr(InfoOf(market_data, c), "trailingPE", 1000)
          < GetOr(InfoOf(market_data, h), "trailingPE", 1000)
    \/ GetOr(InfoOf(market_data, c), "pegRatio", 50) < 15
    \/ is_emergency

MomentumGate(c) == get_momentum_score(HistOf(market_data, c)) > 40

\* C27 as stated: every replacement candidate accepted for a holding, in the
\* emergency mode of a Replace bucket as in the standard mode, passes the
\* quality gate (ROE above 1.10 times the holding's, or the holding's momentum
\* below 30 with the candidate's above 60), the value gate (lower P/E, or PEG
\* below 1.5, or the emergency override) and the momentum gate (its own
\* momentum above 40).
C27_AcceptedPassGates ==
    \A k \in 1..Len(opportunity_output) :
        LET r == opportunity_output[k]
        IN  \A j \in 1..Len(r.replacement_candidates) :
                /\ QualityGate(r.symbol, r.replacement_candidates[j])
                /\ ValueGate(r.symbol, r.replacement_candidates[j],
                             r.bucket = "Replace")
                /\ MomentumGate(r.replacement_candidates[j])

-----------------------------------------------------------------------------
(* Properties of analyze_headline *)

\* C28 as stated: the coarse keyword scoring (-3 or +3, category "Price
\* Action") is applied only to a headline that no weighted pattern matched:
\* the event made of a headline that matched a pattern carries the sum of the
\* weights of its patterns as score and a category of its patterns.
C28_FallbackOnlyUnmatched ==
    \A k \in 1..Len(stock_events) :
        LET e == stock_events[k]
        IN  e.headline.matches # {}
              => /\ e.score = PatternScore(e.headline)
                 /\ e.impact \in PrimaryCategories(PatternCategories(e.headline))

-----------------------------------------------------------------------------
(* Properties of the concentration checks of run_risk_engine *)

\* the concentration flags of the risk output that speak of this measure
FlagsOf(measure) ==
    {k \in 1..Len(risk_output.flags) : risk_output.flags[k].of = measure}

\* C29 as stated: the risk engine raises a concentration flag whenever the
\* largest holding exceeds 15% of the portfolio, and one whenever the three
\* largest holdings together exceed 45%; it raises neither when both are at
\* or below their thresholds.  Weights are in tenths of percent.
C29_ConcentrationFlags ==
    /\ FlagsOf("top1") # {} <=> risk_output.top1_pct > 150
    /\ FlagsOf("top3") # {} <=> risk_output.top3_pct > 450

-----------------------------------------------------------------------------
(* Independence of the rows of the evaluation loop *)

\* the events kept for this symbol alone
OwnEvents(sym) ==
    [s \in DOMAIN events_map |-> IF s = sym THEN events_map[s] ELSE NoEvent]

\* the verdict stored for the symbol, as the four fields of the dict
StoredVerdict(d, sym) ==
    LET k == CHOOSE i \in 1..Len(d) : d[i].symbol = sym
    IN  [action |-> d[k].action, reason |-> d[k].reason,
         urgency |-> d[k].urgency, meta |-> d[k].meta]

\* the loop reads one more row of the table
RowRead == Len(df') = Len(df) + 1

\* C30: holdings are evaluated independently.  Whenever the loop evaluates a
\* row, the verdict it stores is the one the rules give on that row's own
\* records and the event kept for its own symbol, whatever rows were read
\* before it and whatever is kept for other symbols, and the verdicts of the
\* rows read before stay as they were.
C30_RowsIndependent ==
    [][RowRead =>
        /\ \A k \in 1..Len(holding_actions) :
              holding_actions'[k] = holding_actions[k]
        /\ cur'.symbol # "" =>
              /\ Len(holding_actions') = Len(holding_actions) + 1
              /\ StoredVerdict(holding_actions', cur'.symbol)
                   = RowVerdict(cur', OwnEvents(cur'.symbol))
        /\ cur'.symbol = "" => holding_actions' = holding_actions]_vars

\* a governance story exits the first holding, and the holding read after it,
\* with no record against it, is held, followed by a holding to replace
C30_Witness ==
    /\ pc = "done"
    /\ Len(df) = 3
    /\ events_map[SymbolNames[1]].impact = "Governance Risk"
    /\ HasVerdict(SymbolNames[1], "EXIT", "Critical")
    /\ HasVerdict(SymbolNames[2], "HOLD", "Low")
    /\ events_map[SymbolNames[2]] = NoEvent
    /\ HasVerdict(SymbolNames[3], "REPLACE", "High")

====
